---- MODULE Spec2Model ----
(***************************************************************************)
(* A model of the tui-generative-art experiments: the row segment          *)
(* batchers, the Game of Life simulation (countNeighbors, step,            *)
(* placePattern), the GameOfLife component, the fractal escape-time         *)
(* calculation, the FractalExplorer controls, and the application with     *)
(* its menu and the Flow Field, Plasma and Marquee experiments.  Each part *)
(* has its own specification; the variables of the parts a specification   *)
(* does not use stay at their idle values.                                 *)
(***************************************************************************)
EXTENDS Integers, Sequences, FiniteSets, Bags, TLC

VARIABLES
    \* ---- segment batching -------------------------------------------
    row,          \* the cells of one row: <<[glyph, color]>> (color = palette index)
    liferow,      \* one row of a Game of Life grid (booleans)
    segments,     \* the segment list the batcher returned
    batcher,      \* which batcher built `segments` ("none" before the call)
    \* ---- Game of Life simulation (simulation.ts) ----------------------
    grid,         \* the grid handed to step / countNeighbors / placePattern
    wrap,         \* the boundary policy
    lifeOp,       \* the last call: "none", "step", "count" or "place"
    next,         \* the grid the call returned
    cnt,          \* what countNeighbors returned
    cx, cy,       \* the cell countNeighbors was asked about
    pat,          \* placePattern's pattern
    offX, offY,   \* placePattern's offsets
    gen,          \* how many times step has been applied to the placed pattern
    \* ---- GameOfLife component (its grid and wrap are the two above) ----
    screen,       \* App's experiment: "menu" or "life" ("none": no App)
    generation,
    playing,
    speed,        \* ms per generation
    density,      \* percentage for randomize
    patternIndex,
    focusedSlider,
    \* ---- fractal escape time (mandelbrot.ts) ---------------------------
    point,        \* calculatePoint's arguments
    pixel,        \* the FractalPixel it returned (NoPixel before the call)
    \* ---- FractalExplorer component -------------------------------------
    fx,           \* its useState values
    \* ---- App with Menu, FlowField, Plasma, Marquee ----------------------
    app,          \* [experiment, alive]: App's useState and the renderer
    flow,         \* FlowField's useState values and stateRef.current
    plasma,       \* Plasma's useState values and stateRef.current
    marquee,      \* Marquee's useState values and stateRef.current
    timers,       \* the bag of live setInterval closures
    postFns,      \* the bag of postProcess functions registered with the renderer
    noiseSeed,    \* the seed the noise tables were last generated from
    frame,        \* what the last postProcess call sampled
    \* ---- simplex noise (noise.ts) and the flow field's cell rendering ----
    noise,        \* the module's tables perm and gradP, and the last calls made
    drawn         \* one cell of a flow field frame: the sample and what was drawn

batchVars == <<row, liferow, segments, batcher>>
lifeVars == <<grid, wrap, lifeOp, next, cnt, cx, cy, pat, offX, offY, gen>>
lifeCallVars == <<lifeOp, next, cnt, cx, cy, pat, offX, offY, gen>>
golVars == <<screen, generation, playing, speed, density, patternIndex, focusedSlider>>
fractalVars == <<point, pixel>>
fxVars == <<fx>>
appVars == <<app, flow, plasma, marquee, timers, postFns, noiseSeed, frame>>
noiseVars == <<noise, drawn>>
vars == <<row, liferow, segments, batcher,
          grid, wrap, lifeOp, next, cnt, cx, cy, pat, offX, offY, gen,
          screen, generation, playing, speed, density, patternIndex, focusedSlider,
          point, pixel, fx,
          app, flow, plasma, marquee, timers, postFns, noiseSeed, frame,
          noise, drawn>>
nonBatchVars == <<lifeVars, golVars, fractalVars, fxVars, appVars, noiseVars>>
nonLifeVars == <<batchVars, golVars, fractalVars, fxVars, appVars, noiseVars>>
nonGolVars == <<batchVars, lifeCallVars, fractalVars, fxVars, appVars, noiseVars>>
nonFractalVars == <<batchVars, lifeVars, golVars, fxVars, appVars, noiseVars>>
nonFxVars == <<batchVars, lifeVars, golVars, fractalVars, appVars, noiseVars>>
nonAppVars == <<batchVars, lifeVars, golVars, fractalVars, fxVars, noiseVars>>
nonNoiseVars == <<batchVars, lifeVars, golVars, fractalVars, fxVars, appVars>>

\* ------------------------------------------------------------------------
\* Bounds
\* ------------------------------------------------------------------------
MaxRowLen == 3
\* the largest grid (in cells) handed to step and countNeighbors
MaxCells == 9
\* the largest grid handed to placePattern
MaxPlaceW == 2
MaxPlaceH == 2
\* the grid the known patterns are placed on (a scaled-down canvas)
PatW == 6
PatH == 5
\* the canvas of the GameOfLife component (width, height props), scaled down
GolW == 4
GolH == 3
\* the generation counter is followed up to this value
MaxGeneration == 4

\* ========================================================================
\* Segment batching
\* ========================================================================

\* GRAY_PALETTE of the menu previews; a segment carries the palette entry.
GRAY_PALETTE == <<"#444", "#666", "#888", "#aaa", "#ccc", "#fff">>

\* colors[idx] of a JavaScript array: undefined outside the array.
PaletteAt(colors, idx) ==
    IF idx >= 0 /\ idx < Len(colors) THEN colors[idx + 1] ELSE "undefined"

\* The glyphs a cell can show (a character ramp entry is one character).
Glyphs == {" ", "#"}

Cell == [glyph : Glyphs, color : 0 .. (Len(GRAY_PALETTE) - 1)]

\* --- index batcher: Plasma, FlowPreview, PlasmaPreview, Marquee ----------
\* for (x...) { if (colorIdx === currentColorIdx) currentText += char;
\*              else { if (currentText) segments.push(..); currentText = char;
\*                     currentColorIdx = colorIdx; } }
\* if (currentText) segments.push(..)
RECURSIVE PlasmaLoop(_, _, _, _, _)
PlasmaLoop(cells, x, segs, currentText, currentColorIdx) ==
    IF x > Len(cells)
    THEN IF currentText # <<>>
         THEN Append(segs, [text |-> currentText,
                            color |-> PaletteAt(GRAY_PALETTE, currentColorIdx)])
         ELSE segs
    ELSE LET char == cells[x].glyph
             colorIdx == cells[x].color
         IN IF colorIdx = currentColorIdx
            THEN PlasmaLoop(cells, x + 1, segs, Append(currentText, char),
                            currentColorIdx)
            ELSE PlasmaLoop(cells, x + 1,
                            IF currentText # <<>>
                            THEN Append(segs, [text |-> currentText,
                                   color |-> PaletteAt(GRAY_PALETTE, currentColorIdx)])
                            ELSE segs,
                            <<char>>, colorIdx)

\* A mutant: the run in progress at the end of the row is never flushed.
PlasmaNoFinalFlush(cells) ==
    LET all == PlasmaLoop(cells, 1, <<>>, <<>>, -1)
    IN SubSeq(all, 1, Len(all) - 1)

\* A mutant: every cell is flushed as a segment of its own.
PlasmaNoMerge(cells) ==
    [i \in 1 .. Len(cells) |->
        [text |-> <<cells[i].glyph>>, color |-> PaletteAt(GRAY_PALETTE, cells[i].color)]]

plasmaElements(cells) == PlasmaLoop(cells, 1, <<>>, <<>>, -1)

\* --- colour batcher: FractalExplorer -------------------------------------
\* The pixel's colour is a hex string; the run in progress starts as "".
\* brightnessToHex of the brightness levels the palette stands for.
FractalColor(cell) == PaletteAt(GRAY_PALETTE, cell.color)

RECURSIVE FractalLoop(_, _, _, _, _)
FractalLoop(cells, x, segs, currentChars, currentColor) ==
    IF x > Len(cells)
    THEN IF currentChars # <<>>
         THEN Append(segs, [text |-> currentChars, color |-> currentColor])
         ELSE segs
    ELSE LET char == cells[x].glyph
             color == FractalColor(cells[x])
         IN IF color = currentColor
            THEN FractalLoop(cells, x + 1, segs, Append(currentChars, char),
                             currentColor)
            ELSE FractalLoop(cells, x + 1,
                             IF currentChars # <<>>
                             THEN Append(segs, [text |-> currentChars,
                                                color |-> currentColor])
                             ELSE segs,
                             <<char>>, color)

fractalElements(cells) == FractalLoop(cells, 1, <<>>, <<>>, "")

\* --- Game of Life batcher -------------------------------------------------
\* if (cell === currentAlive || currentChars === "") {append; currentAlive = cell}
\* else {push; currentChars = char; currentAlive = cell}
LifeChar(cell) == IF cell THEN "#" ELSE " "
LifeColor(alive) == IF alive THEN "#00FF00" ELSE "#1a1a1a"

RECURSIVE LifeLoop(_, _, _, _, _)
LifeLoop(cells, x, segs, currentChars, currentAlive) ==
    IF x > Len(cells)
    THEN IF currentChars # <<>>
         THEN Append(segs, [text |-> currentChars, color |-> LifeColor(currentAlive)])
         ELSE segs
    ELSE LET cell == cells[x]
             char == LifeChar(cell)
         IN IF cell = currentAlive \/ currentChars = <<>>
            THEN LifeLoop(cells, x + 1, segs, Append(currentChars, char), cell)
            ELSE LifeLoop(cells, x + 1,
                          Append(segs, [text |-> currentChars,
                                        color |-> LifeColor(currentAlive)]),
                          <<char>>, cell)

gridElements(cells) == LifeLoop(cells, 1, <<>>, <<>>, FALSE)

\* ========================================================================
\* Game of Life simulation (simulation.ts)
\* ========================================================================
\* A grid is a sequence of rows, each a sequence of booleans; the code's
\* grid[y][x] (0-based) is g[y + 1][x + 1].

\* const height = grid.length; const width = grid[0]?.length ?? 0;
Height(g) == Len(g)
Width(g) == IF Len(g) = 0 THEN 0 ELSE Len(g[1])

createGrid(width, height) == [y \in 1 .. height |-> [x \in 1 .. width |-> FALSE]]

\* grid[ny]?.[nx]: undefined (falsy) outside the array
At(g, x, y) ==
    IF y >= 0 /\ y < Len(g) /\ x >= 0 /\ x < Len(g[y + 1]) THEN g[y + 1][x + 1] ELSE FALSE

\* The (dx, dy) pairs the two loops visit: (0, 0) is skipped.
Offsets == ({-1, 0, 1} \X {-1, 0, 1}) \ {<<0, 0>>}

\* countNeighbors: one iteration per (dx, dy); the iteration adds 1 when the
\* neighbour position (wrapped, or skipped when off the grid) holds a live cell.
countNeighborsOf(g, x, y, w, offsets) ==
    LET width == Width(g)
        height == Height(g)
        Counted(d) ==
            IF w
            THEN At(g, (x + d[1] + width) % width, (y + d[2] + height) % height)
            ELSE /\ ~(x + d[1] < 0 \/ x + d[1] >= width \/ y + d[2] < 0 \/ y + d[2] >= height)
                 /\ At(g, x + d[1], y + d[2])
    IN Cardinality({d \in offsets : Counted(d)})

\* A mutant: the toroidal policy is ignored (off-grid neighbours are dead).
countNeighborsNoWrap(g, x, y, w) == countNeighborsOf(g, x, y, FALSE, Offsets)

\* A mutant: the cell itself is counted too.
countNeighborsWithSelf(g, x, y, w) ==
    countNeighborsOf(g, x, y, w, {-1, 0, 1} \X {-1, 0, 1})

countNeighbors(g, x, y, w) == countNeighborsOf(g, x, y, w, Offsets)

\* Conway's rules as step applies them to one cell.
\* A mutant: a live cell survives with exactly three neighbours only.
RuleSurviveOnThree(alive, neighbors) == neighbors = 3

Rule(alive, neighbors) ==
    IF alive THEN neighbors = 2 \/ neighbors = 3 ELSE neighbors = 3

\* A mutant: the cells are updated in place, row by row, so that a cell
\* reads the new values of the cells visited before it.
RECURSIVE StepInPlaceLoop(_, _, _)
StepInPlaceLoop(g, w, k) ==
    IF k >= Width(g) * Height(g) THEN g
    ELSE LET x == k % Width(g)
             y == k \div Width(g)
         IN StepInPlaceLoop(
                [g EXCEPT ![y + 1][x + 1] = Rule(At(g, x, y), countNeighbors(g, x, y, w))],
                w, k + 1)

stepInPlace(g, w) == StepInPlaceLoop(g, w, 0)

\* step: next = createGrid(width, height); for y, for x:
\* next[y][x] = rule(grid[y][x], countNeighbors(grid, x, y, wrap)).  Every
\* cell of the fresh grid is assigned once, from the argument grid alone.
step(g, w) ==
    [yy \in 1 .. Height(g) |->
        [xx \in 1 .. Width(g) |->
            LET alive == At(g, xx - 1, yy - 1)
                neighbors == countNeighbors(g, xx - 1, yy - 1, w)
            IN Rule(alive, neighbors)]]

\* placePattern: newGrid = grid.map(row => [...row]); for py, for px:
\* x = offsetX + px, y = offsetY + py; a target inside the grid receives
\* pattern[py][px], any other pattern cell is skipped.
\* The inner loop (px) over one pattern row; `liveOnly` is FALSE in the code.
\* newGrid is an array at every iteration (Len(newGrid) has it evaluated
\* before the next iteration starts).
RECURSIVE PlaceRow(_, _, _, _, _, _, _, _)
PlaceRow(g, p, offsetX, offsetY, py, px, newGrid, liveOnly) ==
    IF px >= Len(p[py + 1]) \/ Len(newGrid) < 0 THEN newGrid
    ELSE LET x == offsetX + px
             y == offsetY + py
         IN IF /\ x >= 0 /\ x < Width(g) /\ y >= 0 /\ y < Height(g)
               /\ (liveOnly => p[py + 1][px + 1])
            THEN PlaceRow(g, p, offsetX, offsetY, py, px + 1,
                          [newGrid EXCEPT ![y + 1][x + 1] = p[py + 1][px + 1]], liveOnly)
            ELSE PlaceRow(g, p, offsetX, offsetY, py, px + 1, newGrid, liveOnly)

\* The outer loop (py).
RECURSIVE PlaceLoop(_, _, _, _, _, _, _)
PlaceLoop(g, p, offsetX, offsetY, py, newGrid, liveOnly) ==
    IF py >= Len(p) \/ Len(newGrid) < 0 THEN newGrid
    ELSE PlaceLoop(g, p, offsetX, offsetY, py + 1,
                   PlaceRow(g, p, offsetX, offsetY, py, 0, newGrid, liveOnly), liveOnly)

\* A mutant: only the live cells of the pattern are written.
placePatternLiveOnly(g, p, offsetX, offsetY) ==
    PlaceLoop(g, p, offsetX, offsetY, 0, g, TRUE)

placePattern(g, p, offsetX, offsetY) == PlaceLoop(g, p, offsetX, offsetY, 0, g, FALSE)

\* parsePattern: one boolean per character, true for "O" and "#".  A pattern
\* text is given as its rows, each row as its characters.
parsePattern(rows) ==
    [r \in 1 .. Len(rows) |-> [c \in 1 .. Len(rows[r]) |-> rows[r][c] \in {"O", "#"}]]

\* PATTERNS[0] and PATTERNS[1]
GLIDER == parsePattern(<< <<".", "O", ".">>,
                          <<".", ".", "O">>,
                          <<"O", "O", "O">> >>)
BLINKER == parsePattern(<< <<"O", "O", "O">> >>)

\* PATTERNS[2] .. PATTERNS[8]
TOAD == parsePattern(<<
    <<".", "O", "O", "O">>,
    <<"O", "O", "O", ".">> >>)

BEACON == parsePattern(<<
    <<"O", "O", ".", ".">>,
    <<"O", "O", ".", ".">>,
    <<".", ".", "O", "O">>,
    <<".", ".", "O", "O">> >>)

PULSAR == parsePattern(<<
    <<".", ".", "O", "O", "O", ".", ".", ".", "O", "O", "O", ".", ".">>,
    <<".", ".", ".", ".", ".", ".", ".", ".", ".", ".", ".", ".", ".">>,
    <<"O", ".", ".", ".", ".", "O", ".", "O", ".", ".", ".", ".", "O">>,
    <<"O", ".", ".", ".", ".", "O", ".", "O", ".", ".", ".", ".", "O">>,
    <<"O", ".", ".", ".", ".", "O", ".", "O", ".", ".", ".", ".", "O">>,
    <<".", ".", "O", "O", "O", ".", ".", ".", "O", "O", "O", ".", ".">>,
    <<".", ".", ".", ".", ".", ".", ".", ".", ".", ".", ".", ".", ".">>,
    <<".", ".", "O", "O", "O", ".", ".", ".", "O", "O", "O", ".", ".">>,
    <<"O", ".", ".", ".", ".", "O", ".", "O", ".", ".", ".", ".", "O">>,
    <<"O", ".", ".", ".", ".", "O", ".", "O", ".", ".", ".", ".", "O">>,
    <<"O", ".", ".", ".", ".", "O", ".", "O", ".", ".", ".", ".", "O">>,
    <<".", ".", ".", ".", ".", ".", ".", ".", ".", ".", ".", ".", ".">>,
    <<".", ".", "O", "O", "O", ".", ".", ".", "O", "O", "O", ".", ".">> >>)

LWSS == parsePattern(<<
    <<".", "O", ".", ".", "O">>,
    <<"O", ".", ".", ".", ".">>,
    <<"O", ".", ".", ".", "O">>,
    <<"O", "O", "O", "O", ".">> >>)

R_PENTOMINO == parsePattern(<<
    <<".", "O", "O">>,
    <<"O", "O", ".">>,
    <<".", "O", ".">> >>)

GOSPER_GUN == parsePattern(<<
    <<".", ".", ".", ".", ".", ".", ".", ".", ".", ".", ".", ".", ".", ".", ".", ".", ".", ".", ".", ".", ".", ".", ".", ".", "O", ".", ".", ".", ".", ".", ".", ".", ".", ".", ".", ".">>,
    <<".", ".", ".", ".", ".", ".", ".", ".", ".", ".", ".", ".", ".", ".", ".", ".", ".", ".", ".", ".", ".", ".", "O", ".", "O", ".", ".", ".", ".", ".", ".", ".", ".", ".", ".", ".">>,
    <<".", ".", ".", ".", ".", ".", ".", ".", ".", ".", ".", ".", "O", "O", ".", ".", ".", ".", ".", ".", "O", "O", ".", ".", ".", ".", ".", ".", ".", ".", ".", ".", ".", ".", "O", "O">>,
    <<".", ".", ".", ".", ".", ".", ".", ".", ".", ".", ".", "O", ".", ".", ".", "O", ".", ".", ".", ".", "O", "O", ".", ".", ".", ".", ".", ".", ".", ".", ".", ".", ".", ".", "O", "O">>,
    <<"O", "O", ".", ".", ".", ".", ".", ".", ".", ".", "O", ".", ".", ".", ".", ".", "O", ".", ".", ".", "O", "O", ".", ".", ".", ".", ".", ".", ".", ".", ".", ".", ".", ".", ".", ".">>,
    <<"O", "O", ".", ".", ".", ".", ".", ".", ".", ".", "O", ".", ".", ".", "O", ".", "O", "O", ".", ".", ".", ".", "O", ".", "O", ".", ".", ".", ".", ".", ".", ".", ".", ".", ".", ".">>,
    <<".", ".", ".", ".", ".", ".", ".", ".", ".", ".", "O", ".", ".", ".", ".", ".", "O", ".", ".", ".", ".", ".", ".", ".", "O", ".", ".", ".", ".", ".", ".", ".", ".", ".", ".", ".">>,
    <<".", ".", ".", ".", ".", ".", ".", ".", ".", ".", ".", "O", ".", ".", ".", "O", ".", ".", ".", ".", ".", ".", ".", ".", ".", ".", ".", ".", ".", ".", ".", ".", ".", ".", ".", ".">>,
    <<".", ".", ".", ".", ".", ".", ".", ".", ".", ".", ".", ".", "O", "O", ".", ".", ".", ".", ".", ".", ".", ".", ".", ".", ".", ".", ".", ".", ".", ".", ".", ".", ".", ".", ".", ".">> >>)

ACORN == parsePattern(<<
    <<".", "O", ".", ".", ".", ".", ".">>,
    <<".", ".", ".", "O", ".", ".", ".">>,
    <<"O", "O", ".", ".", "O", "O", "O">> >>)

PATTERNS == <<GLIDER, BLINKER, TOAD, BEACON, PULSAR, LWSS, R_PENTOMINO, GOSPER_GUN, ACORN>>

getPatternCount == Len(PATTERNS)

\* getPattern: PATTERNS[((index % n) + n) % n]
getPattern(index) ==
    PATTERNS[(((index % getPatternCount) + getPatternCount) % getPatternCount) + 1]

\* --- the batching specification ------------------------------------------
Rows == UNION {[1 .. n -> Cell] : n \in 1 .. MaxRowLen}
LifeRows == UNION {[1 .. n -> BOOLEAN] : n \in 1 .. MaxRowLen}

BatchIdle == row = <<>> /\ liferow = <<>> /\ segments = <<>> /\ batcher = "none"

LifeIdle ==
    /\ grid = <<>> /\ wrap = TRUE /\ lifeOp = "none" /\ next = <<>>
    /\ cnt = 0 /\ cx = 0 /\ cy = 0 /\ pat = <<>> /\ offX = 0 /\ offY = 0 /\ gen = 0

GolIdle ==
    /\ screen = "none" /\ generation = 0 /\ playing = FALSE /\ speed = 0
    /\ density = 0 /\ patternIndex = 0 /\ focusedSlider = "none"

\* No FractalPixel yet: calculatePoint has not returned.
NoPixel == [iterations |-> -1, escaped |-> FALSE, smooth |-> [base |-> -1, norm2 |-> 0]]

FractalIdle == point = <<>> /\ pixel = NoPixel

\* FractalExplorer is not rendered.
FxUnmounted ==
    [mounted |-> FALSE, centerX |-> <<0, 1>>, centerY |-> <<0, 1>>, zoom |-> <<0, 1>>,
     maxIterations |-> 0, juliaMode |-> FALSE, juliaReal |-> 0, juliaImag |-> 0,
     colorMode |-> FALSE, focusedSlider |-> "none"]

\* No FractalExplorer and no App.
FxIdle == fx = FxUnmounted

AppIdle ==
    /\ app = <<>> /\ flow = <<>> /\ plasma = <<>> /\ marquee = <<>>
    /\ timers = EmptyBag /\ postFns = EmptyBag /\ noiseSeed = 0 /\ frame = <<>>

\* The noise module is not loaded and no cell is drawn.
NoiseIdle == noise = <<>> /\ drawn = <<>>

BatchInit ==
    /\ LifeIdle /\ GolIdle /\ FractalIdle /\ FxIdle /\ AppIdle /\ NoiseIdle
    /\ \/ row \in Rows /\ liferow = <<>>
       \/ row = <<>> /\ liferow \in LifeRows
    /\ segments = <<>>
    /\ batcher = "none"

BatchPlasma ==
    /\ batcher = "none" /\ row # <<>>
    /\ segments' = plasmaElements(row)
    /\ batcher' = "plasma"
    /\ UNCHANGED <<row, liferow>>
    /\ UNCHANGED nonBatchVars

BatchFractal ==
    /\ batcher = "none" /\ row # <<>>
    /\ segments' = fractalElements(row)
    /\ batcher' = "fractal"
    /\ UNCHANGED <<row, liferow>>
    /\ UNCHANGED nonBatchVars

BatchLife ==
    /\ batcher = "none" /\ liferow # <<>>
    /\ segments' = gridElements(liferow)
    /\ batcher' = "life"
    /\ UNCHANGED <<row, liferow>>
    /\ UNCHANGED nonBatchVars

BatchNext == BatchPlasma \/ BatchFractal \/ BatchLife

SpecBatch == BatchInit /\ [][BatchNext]_vars

\* The glyph sequence and the colour sequence of the row that was batched.
RowGlyphs ==
    IF batcher = "life" THEN [i \in 1 .. Len(liferow) |-> LifeChar(liferow[i])]
    ELSE [i \in 1 .. Len(row) |-> row[i].glyph]

RowColors ==
    IF batcher = "life" THEN [i \in 1 .. Len(liferow) |-> LifeColor(liferow[i])]
    ELSE [i \in 1 .. Len(row) |-> PaletteAt(GRAY_PALETTE, row[i].color)]

RECURSIVE ConcatText(_)
ConcatText(segs) ==
    IF segs = <<>> THEN <<>> ELSE Head(segs).text \o ConcatText(Tail(segs))

\* C1: for every row, the concatenation of the segments' text, in order, is
\* the row's glyph sequence, and no two consecutive segments carry the same
\* colour (all three batchers: index, colour string, alive flag).
C1_RoundTrip ==
    batcher # "none" =>
        /\ ConcatText(segments) = RowGlyphs
        /\ \A i \in 1 .. (Len(segments) - 1) :
               segments[i].color # segments[i + 1].color

\* A row with a merged run and a colour change has been batched.
C1_Witness ==
    /\ batcher = "plasma"
    /\ Len(row) = 3
    /\ Len(segments) = 2
    /\ Len(segments[1].text) = 2

\* C2: a row of N cells yields at most N segments, and exactly N only when
\* every two horizontally adjacent cells differ in colour.
C2_SegmentCount ==
    batcher # "none" =>
        /\ Len(segments) <= Len(RowColors)
        /\ (Len(segments) = Len(RowColors) =>
               \A i \in 1 .. (Len(RowColors) - 1) : RowColors[i] # RowColors[i + 1])

\* A three-cell row of pairwise different neighbours gave three segments.
C2_Witness ==
    /\ batcher = "fractal"
    /\ Len(row) = 3
    /\ Len(segments) = 3

\* ========================================================================
\* Specifications of the simulation functions
\* ========================================================================
AllGrids(w, h) == [1 .. h -> [1 .. w -> BOOLEAN]]

LifeArgsIdle ==
    /\ next = <<>> /\ cnt = 0 /\ cx = 0 /\ cy = 0
    /\ pat = <<>> /\ offX = 0 /\ offY = 0 /\ gen = 0

\* --- step on every grid of at most MaxCells cells -------------------------
StepInit ==
    /\ BatchIdle /\ GolIdle /\ FractalIdle /\ FxIdle /\ AppIdle /\ NoiseIdle
    /\ \E w \in 1 .. MaxCells, h \in 1 .. MaxCells :
          w * h <= MaxCells /\ grid \in AllGrids(w, h)
    /\ wrap \in BOOLEAN
    /\ lifeOp = "none"
    /\ LifeArgsIdle

\* const next = step(grid, wrap): the argument is not written.
CallStep ==
    /\ lifeOp = "none"
    /\ next' = step(grid, wrap)
    /\ lifeOp' = "step"
    /\ UNCHANGED <<grid, wrap, cnt, cx, cy, pat, offX, offY, gen>>
    /\ UNCHANGED nonLifeVars

\* setGrid(g => step(g, wrap)): the returned grid becomes the current one.
AdoptStep ==
    /\ lifeOp = "step"
    /\ grid' = next
    /\ next' = <<>>
    /\ lifeOp' = "none"
    /\ UNCHANGED <<wrap, cnt, cx, cy, pat, offX, offY, gen>>
    /\ UNCHANGED nonLifeVars

StepNext == CallStep \/ AdoptStep

SpecStep == StepInit /\ [][StepNext]_vars

\* C3: every cell of step(g, wrap) is alive exactly when it is alive in g
\* with 2 or 3 live neighbours in g, or dead in g with exactly 3; the counts
\* are those of g as it was handed in, and the result has g's dimensions.
C3_StepRule ==
    lifeOp = "step" =>
        /\ Height(next) = Height(grid)
        /\ \A y \in 0 .. (Height(grid) - 1) :
              /\ Len(next[y + 1]) = Width(grid)
              /\ \A x \in 0 .. (Width(grid) - 1) :
                    LET n == countNeighbors(grid, x, y, wrap)
                    IN next[y + 1][x + 1] <=>
                          \/ (grid[y + 1][x + 1] /\ n \in {2, 3})
                          \/ (~grid[y + 1][x + 1] /\ n = 3)

\* step was applied to a grid in which one cell is born and another dies.
C3_Witness ==
    /\ lifeOp = "step"
    /\ \E y \in 1 .. Height(grid) : \E x \in 1 .. Width(grid) :
           ~grid[y][x] /\ next[y][x]
    /\ \E y \in 1 .. Height(grid) : \E x \in 1 .. Width(grid) :
           grid[y][x] /\ ~next[y][x]

\* --- countNeighbors on every cell of every such grid ---------------------
CallCount ==
    /\ lifeOp = "none"
    /\ \E x \in 0 .. (Width(grid) - 1), y \in 0 .. (Height(grid) - 1) :
          /\ cnt' = countNeighbors(grid, x, y, wrap)
          /\ cx' = x
          /\ cy' = y
    /\ lifeOp' = "count"
    /\ UNCHANGED <<grid, wrap, next, pat, offX, offY, gen>>
    /\ UNCHANGED nonLifeVars

SpecCount == StepInit /\ [][CallCount]_vars

\* The live cells among a set of positions.
LiveIn(g, cells) == Cardinality({c \in cells : At(g, c[1], c[2])})

\* The neighbour positions of (x, y) that lie inside the grid.
InGridNeighbors(g, x, y) ==
    {c \in (0 .. (Width(g) - 1)) \X (0 .. (Height(g) - 1)) :
        /\ c # <<x, y>>
        /\ c[1] - x \in {-1, 0, 1}
        /\ c[2] - y \in {-1, 0, 1}}

\* The cells across the seam: in the opposite border column (row), in the
\* same or an adjacent row (column) taken around the torus.
AcrossSeam(g, x, y) ==
    LET W == Width(g)
        H == Height(g)
        cols == {(x + d + W) % W : d \in {-1, 0, 1}}
        rows == {(y + d + H) % H : d \in {-1, 0, 1}}
        col == IF x = 0 THEN {W - 1} \X rows
               ELSE IF x = W - 1 THEN {0} \X rows ELSE {}
        rw == IF y = 0 THEN cols \X {H - 1}
              ELSE IF y = H - 1 THEN cols \X {0} ELSE {}
    IN col \cup rw

SmallPatterns == UNION {AllGrids(w, h) : w \in 1 .. 2, h \in 1 .. 2}

PlaceInit ==
    /\ BatchIdle /\ GolIdle /\ FractalIdle /\ FxIdle /\ AppIdle /\ NoiseIdle
    /\ \E w \in 1 .. MaxPlaceW, h \in 1 .. MaxPlaceH : grid \in AllGrids(w, h)
    /\ wrap = TRUE
    /\ lifeOp = "none"
    /\ LifeArgsIdle

CallPlace ==
    /\ lifeOp = "none"
    /\ \E p \in SmallPatterns,
          ox \in -2 .. Width(grid), oy \in -2 .. Height(grid) :
          /\ next' = placePattern(grid, p, ox, oy)
          /\ pat' = p
          /\ offX' = ox
          /\ offY' = oy
    /\ lifeOp' = "place"
    /\ UNCHANGED <<grid, wrap, cnt, cx, cy, gen>>
    /\ UNCHANGED nonLifeVars

SpecPlace == PlaceInit /\ [][CallPlace]_vars

\* (x, y) lies under the pattern placed at (offX, offY).
UnderPattern(x, y) ==
    /\ y - offY >= 0 /\ y - offY < Len(pat)
    /\ x - offX >= 0 /\ x - offX < Len(pat[y - offY + 1])

\* C8: placePattern returns a grid of the input's dimensions; a cell under
\* the pattern's footprint holds the pattern's cell, any other cell holds the
\* input grid's cell; pattern cells that fall outside are dropped.
C8_PlacePattern ==
    lifeOp = "place" =>
        /\ Height(next) = Height(grid)
        /\ \A y \in 0 .. (Height(grid) - 1) :
              /\ Len(next[y + 1]) = Width(grid)
              /\ \A x \in 0 .. (Width(grid) - 1) :
                    next[y + 1][x + 1] =
                        IF UnderPattern(x, y)
                        THEN pat[y - offY + 1][x - offX + 1]
                        ELSE grid[y + 1][x + 1]

\* A pattern was placed half outside the grid (negative offset): one of its
\* cells cleared a live cell, and a live cell outside the footprint stayed.
C8_Witness ==
    /\ lifeOp = "place"
    /\ offX < 0
    /\ Len(pat) = 2 /\ Len(pat[1]) = 2
    /\ \E y \in 0 .. (Height(grid) - 1), x \in 0 .. (Width(grid) - 1) :
          UnderPattern(x, y) /\ grid[y + 1][x + 1] /\ ~next[y + 1][x + 1]
    /\ \E y \in 0 .. (Height(grid) - 1), x \in 0 .. (Width(grid) - 1) :
          ~UnderPattern(x, y) /\ grid[y + 1][x + 1] /\ next[y + 1][x + 1]

\* --- the known patterns on a canvas ---------------------------------------
\* 2 x 2 block (a still life)
BLOCK == << <<TRUE, TRUE>>, <<TRUE, TRUE>> >>

KnownPatterns == {GLIDER, BLINKER, BLOCK}

\* More generations than one trip of the glider around the torus.
MaxGen == 4 * PatW * PatH

PatternsInit ==
    /\ BatchIdle /\ GolIdle /\ FractalIdle /\ FxIdle /\ AppIdle /\ NoiseIdle
    /\ grid = createGrid(PatW, PatH)
    /\ wrap \in BOOLEAN
    /\ lifeOp = "none"
    /\ LifeArgsIdle

\* setGrid(placePattern(createGrid(width, height), pattern, offsetX, offsetY))
\* with the whole pattern inside the grid
PlaceKnown ==
    /\ lifeOp = "none"
    /\ \E p \in KnownPatterns :
       \E ox \in 0 .. (PatW - Len(p[1])), oy \in 0 .. (PatH - Len(p)) :
          /\ grid' = placePattern(grid, p, ox, oy)
          /\ pat' = p
          /\ offX' = ox
          /\ offY' = oy
    /\ lifeOp' = "place"
    /\ gen' = 0
    /\ UNCHANGED <<wrap, next, cnt, cx, cy>>
    /\ UNCHANGED nonLifeVars

\* setGrid(g => step(g, wrap)); one generation
StepPlaced ==
    /\ lifeOp = "place"
    /\ gen < MaxGen
    /\ grid' = step(grid, wrap)
    /\ gen' = gen + 1
    /\ UNCHANGED <<wrap, lifeOp, next, cnt, cx, cy, pat, offX, offY>>
    /\ UNCHANGED nonLifeVars

PatternsNext == PlaceKnown \/ StepPlaced

SpecPatterns == PatternsInit /\ [][PatternsNext]_vars

\* The grid whose live cells are exactly `cells` (0-based (x, y) pairs).
GridOf(cells) == [yy \in 1 .. PatH |-> [xx \in 1 .. PatW |-> <<xx - 1, yy - 1>> \in cells]]

\* The cells of the canonical glider  .O. / ..O / OOO  at the origin.
GliderCells == {<<1, 0>>, <<2, 1>>, <<0, 2>>, <<1, 2>>, <<2, 2>>}

\* C4: with wrap, a grid holding only the canonical glider holds, after every
\* 4 generations, exactly the glider translated by (+1, +1) once more
\* (indices modulo width and height), for every number of generations.
C4_GliderTranslates ==
    (lifeOp = "place" /\ pat = GLIDER /\ wrap /\ gen % 4 = 0) =>
        grid = GridOf({<<(c[1] + offX + gen \div 4) % PatW,
                         (c[2] + offY + gen \div 4) % PatH>> : c \in GliderCells})

\* The glider has gone once around the torus and is on its way again.
C4_Witness ==
    /\ lifeOp = "place" /\ pat = GLIDER /\ wrap
    /\ gen = 4 * PatW + 4

\* C5: three horizontally consecutive live cells away from the borders become
\* the three vertically consecutive cells through the centre after one step
\* and the original row after two: horizontal at every even generation,
\* vertical at every odd one.
C5_BlinkerPeriod2 ==
    (/\ lifeOp = "place" /\ pat = BLINKER
     /\ offX >= 1 /\ offX + 3 <= PatW - 1
     /\ offY >= 1 /\ offY <= PatH - 2) =>
        grid = IF gen % 2 = 0
               THEN GridOf({<<offX, offY>>, <<offX + 1, offY>>, <<offX + 2, offY>>})
               ELSE GridOf({<<offX + 1, offY - 1>>, <<offX + 1, offY>>,
                            <<offX + 1, offY + 1>>})

\* A blinker away from the borders is in its vertical phase for the second time.
C5_Witness ==
    /\ lifeOp = "place" /\ pat = BLINKER /\ gen = 3
    /\ offX = 1 /\ offY = 1
    /\ grid[1][3] /\ grid[3][3] /\ ~grid[2][2]

\* C6: a grid whose only live cells form a 2 x 2 block stays that grid after
\* any number of generations.
C6_BlockStill ==
    (lifeOp = "place" /\ pat = BLOCK) =>
        grid = GridOf({<<offX, offY>>, <<offX + 1, offY>>,
                       <<offX, offY + 1>>, <<offX + 1, offY + 1>>})

\* A block in a corner of the grid after several generations with wrap.
C6_Witness ==
    /\ lifeOp = "place" /\ pat = BLOCK /\ gen = 5 /\ wrap
    /\ offX = 0 /\ offY = 0
    /\ grid[1][1] /\ grid[2][2]

\* ========================================================================
\* GameOfLife component (state, animation loop, keyboard handler)
\* ========================================================================
\* A key event: key.name and key.raw.
Key(name, raw) == [name |-> name, raw |-> raw]

\* key.raw >= "1" && key.raw <= "9" ? parseInt(key.raw, 10) : 0
Digit(raw) ==
    CASE raw = "1" -> 1 [] raw = "2" -> 2 [] raw = "3" -> 3 [] raw = "4" -> 4
      [] raw = "5" -> 5 [] raw = "6" -> 6 [] raw = "7" -> 7 [] raw = "8" -> 8
      [] raw = "9" -> 9 [] OTHER -> 0

\* randomizeGrid: every cell is Math.random() < density, so any grid can
\* come out; `draw` names the outcome of the random numbers.
RandomDraws == {"dead", "alive", "columns", "diagonal"}

randomizeGrid(width, height, dens, draw) ==
    [y \in 1 .. height |-> [x \in 1 .. width |->
        CASE draw = "dead" -> FALSE
          [] draw = "alive" -> TRUE
          [] draw = "columns" -> x % 2 = 1
          [] OTHER -> (x + y) % 3 = 0]]

\* A mutant: the grid is built with width and height exchanged.
loadPatternGridSwapped(index) ==
    LET pattern == getPattern(index)
        offsetX == (GolW - Len(pattern[1])) \div 2
        offsetY == (GolH - Len(pattern)) \div 2
    IN placePattern(createGrid(GolH, GolW), pattern, offsetX, offsetY)

\* loadPattern: the pattern centred on an empty grid
\* (Math.floor((width - pattern.data[0].length) / 2) etc.)
loadPatternGrid(index) ==
    LET pattern == getPattern(index)
        offsetX == (GolW - Len(pattern[1])) \div 2
        offsetY == (GolH - Len(pattern)) \div 2
    IN placePattern(createGrid(GolW, GolH), pattern, offsetX, offsetY)

\* The index loadPattern is called with by this key, -1 for none:
\* a digit key 1..9 whose index is below getPatternCount(), or P.
LoadIndex(key) ==
    IF key.name = "p" THEN (patternIndex + 1) % getPatternCount
    ELSE IF Digit(key.raw) # 0 /\ Digit(key.raw) - 1 < getPatternCount
         THEN Digit(key.raw) - 1
         ELSE -1

\* A handler without the `if (!playing)` test in front of stepOnce().
StepsOnceAlways(key) == key.name = "n" \/ key.raw = "."

\* stepOnce is called: N or "." while the rendered `playing` is false.
StepsOnce(key) == (key.name = "n" \/ key.raw = ".") /\ ~playing

Min(a, b) == IF a < b THEN a ELSE b
Max(a, b) == IF a > b THEN a ELSE b

\* useState initial values
GolMount ==
    /\ grid = createGrid(GolW, GolH)
    /\ generation = 0
    /\ playing = FALSE
    /\ speed = 100
    /\ density = 30
    /\ wrap = TRUE
    /\ patternIndex = 0
    /\ focusedSlider = "speed"

GolInit ==
    /\ BatchIdle /\ FractalIdle /\ FxIdle /\ AppIdle /\ NoiseIdle
    /\ lifeOp = "none" /\ LifeArgsIdle
    /\ screen = "life"
    /\ GolMount

\* The interval callback of the animation loop; the interval exists only
\* while playing.
GolTick ==
    /\ screen = "life"
    /\ playing
    /\ generation < MaxGeneration
    /\ grid' = step(grid, wrap)
    /\ generation' = generation + 1
    /\ UNCHANGED <<wrap, screen, playing, speed, density, patternIndex, focusedSlider>>
    /\ UNCHANGED nonGolVars

\* The keyboard handler, for one key event.
GolKey(key, draw) ==
    /\ screen = "life"
    /\ StepsOnce(key) => generation < MaxGeneration
    /\ IF key.name = "escape" \/ key.name = "backspace"
       THEN \* onBack(); return
            /\ screen' = "menu"
            /\ UNCHANGED <<grid, wrap, generation, playing, speed, density,
                           patternIndex, focusedSlider>>
       ELSE /\ screen' = screen
            /\ playing' = IF key.name = "x" THEN FALSE
                          ELSE IF key.name = "space" THEN ~playing ELSE playing
            /\ wrap' = IF key.name = "w" THEN ~wrap ELSE wrap
            \* the queued setGrid calls, in the handler's order
            /\ grid' =
                 LET g1 == IF StepsOnce(key) THEN step(grid, wrap) ELSE grid
                     g2 == IF key.name = "x" THEN createGrid(GolW, GolH) ELSE g1
                     g3 == IF key.name = "r"
                           THEN randomizeGrid(GolW, GolH, density, draw) ELSE g2
                 IN IF LoadIndex(key) # -1 THEN loadPatternGrid(LoadIndex(key)) ELSE g3
            /\ generation' =
                 IF key.name = "x" \/ key.name = "r" \/ LoadIndex(key) # -1 THEN 0
                 ELSE IF StepsOnce(key) THEN generation + 1 ELSE generation
            /\ patternIndex' =
                 IF LoadIndex(key) # -1 THEN LoadIndex(key) ELSE patternIndex
            /\ focusedSlider' =
                 IF key.name = "tab"
                 THEN (IF focusedSlider = "speed" THEN "density" ELSE "speed")
                 ELSE focusedSlider
            /\ speed' =
                 IF focusedSlider = "speed" /\ key.raw \in {",", "<"}
                 THEN Min(500, speed + 25)
                 ELSE IF focusedSlider = "speed" /\ key.raw \in {".", ">"}
                      THEN Max(25, speed - 25)
                      ELSE speed
            /\ density' =
                 IF focusedSlider = "density" /\ key.raw \in {",", "<"}
                 THEN Max(10, density - 10)
                 ELSE IF focusedSlider = "density" /\ key.raw \in {".", ">"}
                      THEN Min(90, density + 10)
                      ELSE density
    /\ UNCHANGED nonGolVars

\* Menu: key 2 mounts a new GameOfLife.
MenuOpenLife ==
    /\ screen = "menu"
    /\ screen' = "life"
    /\ grid' = createGrid(GolW, GolH)
    /\ generation' = 0
    /\ playing' = FALSE
    /\ speed' = 100
    /\ density' = 30
    /\ wrap' = TRUE
    /\ patternIndex' = 0
    /\ focusedSlider' = "speed"
    /\ UNCHANGED nonGolVars

\* The keys that act on the grid and on play/pause, and keys without effect.
GridKeys ==
    {Key("escape", "esc"), Key("backspace", "bs"), Key("space", " "),
     Key("n", "n"), Key("x", "x"), Key("r", "r"), Key("w", "w"), Key("p", "p"),
     Key("z", "z"), Key("0", "0"), Key(".", ".")}
    \cup {Key(d, d) : d \in {"1", "2", "3", "4", "5", "6", "7", "8", "9"}}

\* Only R draws random numbers.
GolPress ==
    \E key \in GridKeys :
        \E draw \in (IF key.name = "r" THEN RandomDraws ELSE {"dead"}) :
            GolKey(key, draw)

GolNext == GolTick \/ GolPress \/ MenuOpenLife

SpecGol == GolInit /\ [][GolNext]_vars

\* C9: after any sequence of ticks and key events the grid has exactly
\* `height` rows of exactly `width` cells.
C9_GridDimensions ==
    screen = "life" =>
        /\ Len(grid) = GolH
        /\ \A y \in 1 .. Len(grid) : Len(grid[y]) = GolW

\* A pattern wider than the grid was loaded, wrap was switched off, and the
\* simulation has run for two generations.
C9_Witness ==
    /\ screen = "life"
    /\ patternIndex = 7
    /\ ~wrap
    /\ playing
    /\ generation = 2

\* ========================================================================
\* Fractal escape time (mandelbrot.ts)
\* ========================================================================
\* calculatePoint on points and constants with integer coordinates, where
\* the double arithmetic is exact.  `Continue(x2, y2, iterations, max)` is
\* the loop condition.
\* A mutant: the loop stops as soon as |z|^2 reaches 4.
ContinueStrict(x2, y2, iterations, maxIterations) ==
    x2 + y2 < 4 /\ iterations < maxIterations

\* A mutant: the loop gives up one iteration before the limit.
ContinueOneShort(x2, y2, iterations, maxIterations) ==
    x2 + y2 <= 4 /\ iterations + 1 < maxIterations

Continue(x2, y2, iterations, maxIterations) ==
    x2 + y2 <= 4 /\ iterations < maxIterations

\* while (...) { y = 2*x*y + cy; x = x2 - y2 + cx; x2 = x*x; y2 = y*y; iterations++ }
RECURSIVE EscapeLoop(_, _, _, _, _, _)
EscapeLoop(x, y, ccx, ccy, iterations, maxIterations) ==
    IF Continue(x * x, y * y, iterations, maxIterations)
    THEN EscapeLoop(x * x - y * y + ccx, 2 * x * y + ccy, ccx, ccy,
                    iterations + 1, maxIterations)
    ELSE [x |-> x, y |-> y, iterations |-> iterations]

\* escaped = iterations < maxIterations; smooth = iterations unless escaped
\* with iterations > 0, where it is iterations + 1 - nu, nu a function of the
\* final |z|^2 (kept as that number).
calculatePoint(x0, y0, maxIterations, juliaMode, juliaReal, juliaImag) ==
    LET end == IF juliaMode
               THEN EscapeLoop(x0, y0, juliaReal, juliaImag, 0, maxIterations)
               ELSE EscapeLoop(0, 0, x0, y0, 0, maxIterations)
        escaped == end.iterations < maxIterations
    IN [iterations |-> end.iterations,
        escaped |-> escaped,
        smooth |-> IF escaped /\ end.iterations > 0
                   THEN [base |-> end.iterations + 1,
                         norm2 |-> end.x * end.x + end.y * end.y]
                   ELSE [base |-> end.iterations, norm2 |-> 0]]

\* Largest |coordinate| of a sampled point, largest |coordinate| of the Julia
\* constant, and largest iteration limit.
MaxCoord == 2
MaxJulia == 1
MaxIter == 4

\* calculatePoint is about to be called with these arguments.
FractalInit ==
    /\ BatchIdle /\ LifeIdle /\ GolIdle /\ FxIdle /\ AppIdle /\ NoiseIdle
    /\ pixel = NoPixel
    /\ \E x0, y0 \in -MaxCoord .. MaxCoord, maxIterations \in 1 .. MaxIter,
          juliaMode \in BOOLEAN, juliaReal, juliaImag \in -MaxJulia .. MaxJulia :
          point = [x0 |-> x0, y0 |-> y0, maxIterations |-> maxIterations,
                   juliaMode |-> juliaMode,
                   juliaReal |-> juliaReal, juliaImag |-> juliaImag]

\* The call returns.
Calculate ==
    /\ pixel = NoPixel
    /\ pixel' = calculatePoint(point.x0, point.y0, point.maxIterations,
                               point.juliaMode, point.juliaReal, point.juliaImag)
    /\ UNCHANGED point
    /\ UNCHANGED nonFractalVars

FractalNext == Calculate

SpecFractal == FractalInit /\ [][FractalNext]_vars

\* calculatePoint has returned for the Mandelbrot point (2,0).
AtTwoZero ==
    /\ pixel # NoPixel
    /\ ~point.juliaMode
    /\ point.x0 = 2 /\ point.y0 = 0

\* C10, as amended: in Mandelbrot mode the point (2,0) leaves the radius-2
\* disc at the second iteration (|z1|^2 = 4 is not above 4), so the call
\* returns iterations = min(2, maxIterations), and escaped is true exactly
\* when maxIterations >= 3.
C10_TwoZeroEscapesAtSecond ==
    AtTwoZero =>
        /\ pixel.iterations = Min(2, point.maxIterations)
        /\ pixel.escaped = (point.maxIterations >= 3)

\* The point (2,0) computed with an iteration limit above two: it escaped.
C10_Witness ==
    /\ AtTwoZero
    /\ point.maxIterations = 3
    /\ pixel.escaped

\* C10, as stated: (2,0) returns iterations <= 1 with escaped = true for
\* every maxIterations >= 1.
C10_EscapesWithinOne ==
    AtTwoZero => (pixel.iterations <= 1 /\ pixel.escaped)

\* calculatePoint has returned for the Mandelbrot point (0,0).
AtOrigin ==
    /\ pixel # NoPixel
    /\ ~point.juliaMode
    /\ point.x0 = 0 /\ point.y0 = 0

\* C11: in Mandelbrot mode the point (0,0) never escapes: for every
\* maxIterations >= 1 the call returns iterations = maxIterations,
\* escaped = false and smooth = iterations (no smoothing term applied).
C11_OriginNeverEscapes ==
    AtOrigin =>
        /\ pixel.iterations = point.maxIterations
        /\ pixel.escaped = FALSE
        /\ pixel.smooth = [base |-> pixel.iterations, norm2 |-> 0]

\* The origin computed with the largest iteration limit.
C11_Witness ==
    /\ AtOrigin
    /\ point.maxIterations = MaxIter
    /\ pixel.iterations = MaxIter

\* ========================================================================
\* The application: Menu, FlowField, Plasma, Marquee
\* ========================================================================
\* Simulated time is kept in units of 0.0001 and the marquee offset in units
\* of 0.2, so that every increment the code computes is a whole number.
\*
\* A commit is one step: the state updaters a handler queued, the render and
\* the effects whose dependencies changed (cleanup of the old effect, then
\* the new one) happen together, before the next timer or frame callback.

\* ticks are followed while the time is below that of MaxTicks ticks at the
\* lowest speed
MaxTicks == 2
\* ticks of the menu's preview timer that are followed
MaxMenuTicks == 2

\* Math.floor(Math.random() * 100000): the outcomes that are followed.
SeedDraws == {7, 42}

\* One interval closure more / less in the bag of live intervals.
setInterval(tm, closure) == tm (+) SetToBag({closure})
clearInterval(tm, closure) == tm (-) SetToBag({closure})

\* ---- FlowField -------------------------------------------------------------
FlowUnmounted ==
    [mounted |-> FALSE, scale |-> 0, speed |-> 0, playing |-> FALSE,
     displayMode |-> "none", colorMode |-> FALSE, seedValue |-> 0,
     focusedSlider |-> "none", time |-> 0,
     ref |-> [scale |-> 0, displayMode |-> "none", colorMode |-> FALSE, time |-> 0]]

\* A mutant: the effect that keeps stateRef in sync does not list `time`
\* among its dependencies, so a tick leaves stateRef.current as it was.
FlowSyncOmitsTime(f) ==
    IF <<f.scale, f.displayMode, f.colorMode>>
          = <<f.ref.scale, f.ref.displayMode, f.ref.colorMode>>
    THEN f
    ELSE [f EXCEPT !.ref = [scale |-> f.scale, displayMode |-> f.displayMode,
                            colorMode |-> f.colorMode, time |-> f.time]]

\* useEffect(() => { stateRef.current = {scale, displayMode, colorMode, .., time} })
FlowSync(f) ==
    [f EXCEPT !.ref = [scale |-> f.scale, displayMode |-> f.displayMode,
                       colorMode |-> f.colorMode, time |-> f.time]]

\* useState initial values
FlowMounted ==
    FlowSync([mounted |-> TRUE, scale |-> 1, speed |-> 10, playing |-> TRUE,
              displayMode |-> "arrows", colorMode |-> FALSE, seedValue |-> 42,
              focusedSlider |-> "scale", time |-> 0,
              ref |-> [scale |-> 0, displayMode |-> "none", colorMode |-> FALSE,
                       time |-> 0]])

\* A mutant: the increment ignores the speed.
FlowIncrementFixed(spd) == 12 * 100

\* const timeIncrement = 0.12 * (speed / 100)
FlowIncrement(spd) == 12 * spd

\* The interval the animation effect creates; its callback closes over speed.
FlowTimer(f) == [owner |-> "flow", speed |-> f.speed, textWidth |-> 0]

\* A mutant: the effect's cleanup leaves the old interval running.
FlowIntervalLeaky(prev, new, tm) ==
    IF <<new.playing, new.speed>> = <<prev.playing, prev.speed>> THEN tm
    ELSE IF new.playing THEN setInterval(tm, FlowTimer(new)) ELSE tm

\* The animation effect, deps [playing, speed]: cleanup of the previous run
\* (clearInterval, if that run had made an interval), then the new run.
FlowInterval(prev, new, tm) ==
    IF <<new.playing, new.speed>> = <<prev.playing, prev.speed>> THEN tm
    ELSE LET cleaned == IF prev.playing THEN clearInterval(tm, FlowTimer(prev))
                        ELSE tm
         IN IF new.playing THEN setInterval(cleaned, FlowTimer(new)) ELSE cleaned

\* A mutant: R also pauses the animation.
FlowReseedPauses(f, key, draw) ==
    IF key.name = "r"
    THEN [f EXCEPT !.seedValue = draw, !.time = 0, !.playing = FALSE]
    ELSE f

\* if (key.name === "r") { setSeedValue(Math.floor(Math.random() * 100000)); setTime(0) }
FlowReseed(f, key, draw) ==
    IF key.name = "r" THEN [f EXCEPT !.seedValue = draw, !.time = 0] ELSE f

\* A mutant: the scale wraps around instead of stopping at its bounds.
FlowAdjustWraps(f, key) ==
    IF key.name = "left" \/ key.name = "right"
    THEN LET delta == IF key.name = "right" THEN 1 ELSE -1
         IN IF f.focusedSlider = "scale"
            THEN [f EXCEPT !.scale = ((@ + delta - 1) % 20) + 1]
            ELSE IF f.focusedSlider = "speed"
                 THEN [f EXCEPT !.speed = Max(10, Min(200, @ + delta * 10))]
                 ELSE f
    ELSE f

\* Adjust the focused slider with the arrow keys.
FlowAdjust(f, key) ==
    IF key.name = "left" \/ key.name = "right"
    THEN LET delta == IF key.name = "right" THEN 1 ELSE -1
         IN IF f.focusedSlider = "scale"
            THEN [f EXCEPT !.scale = Max(1, Min(20, @ + delta))]
            ELSE IF f.focusedSlider = "speed"
                 THEN [f EXCEPT !.speed = Max(10, Min(200, @ + delta * 10))]
                 ELSE f
    ELSE f

\* A mutant: D steps backwards through the display modes.
FlowCycleBack(f, key) ==
    IF key.name = "d"
    THEN [f EXCEPT !.displayMode = IF @ = "arrows" THEN "dots"
                                   ELSE IF @ = "dots" THEN "lines" ELSE "arrows"]
    ELSE f

\* setDisplayMode(m => m === "arrows" ? "lines" : m === "lines" ? "dots" : "arrows")
FlowCycle(f, key) ==
    IF key.name = "d"
    THEN [f EXCEPT !.displayMode = IF @ = "arrows" THEN "lines"
                                   ELSE IF @ = "lines" THEN "dots" ELSE "arrows"]
    ELSE f

\* The state after the updaters the handler queues for a key other than
\* Esc / Backspace, in the handler's order.
FlowUpdated(f, key, draw) ==
    LET f1 == IF key.name = "space" THEN [f EXCEPT !.playing = ~@] ELSE f
        f2 == FlowReseed(f1, key, draw)
        f3 == FlowCycle(f2, key)
        f4 == IF key.name = "c" THEN [f3 EXCEPT !.colorMode = ~@] ELSE f3
        f5 == IF key.name = "tab"
              THEN [f4 EXCEPT !.focusedSlider = IF @ = "scale" THEN "speed" ELSE "scale"]
              ELSE f4
    IN FlowAdjust(f5, key)

\* ---- Plasma ----------------------------------------------------------------
PlasmaUnmounted ==
    [mounted |-> FALSE, scale |-> 0, speed |-> 0, playing |-> FALSE,
     palette |-> "none", charSet |-> "none", focusedSlider |-> "none", time |-> 0,
     ref |-> [scale |-> 0, palette |-> "none", charSet |-> "none", time |-> 0]]

\* useEffect(() => { stateRef.current = {scale, palette, charSet, .., time} })
PlasmaSync(f) ==
    [f EXCEPT !.ref = [scale |-> f.scale, palette |-> f.palette,
                       charSet |-> f.charSet, time |-> f.time]]

\* useState initial values
PlasmaMounted ==
    PlasmaSync([mounted |-> TRUE, scale |-> 4, speed |-> 100, playing |-> TRUE,
                palette |-> "gray", charSet |-> "blocks",
                focusedSlider |-> "scale", time |-> 0,
                ref |-> [scale |-> 0, palette |-> "none", charSet |-> "none",
                         time |-> 0]])

\* const timeIncrement = 0.06 * (speed / 100)
PlasmaIncrement(spd) == 6 * spd

PlasmaTimer(f) == [owner |-> "plasma", speed |-> f.speed, textWidth |-> 0]

\* The animation effect, deps [playing, speed].
PlasmaInterval(prev, new, tm) ==
    IF <<new.playing, new.speed>> = <<prev.playing, prev.speed>> THEN tm
    ELSE LET cleaned == IF prev.playing THEN clearInterval(tm, PlasmaTimer(prev))
                        ELSE tm
         IN IF new.playing THEN setInterval(cleaned, PlasmaTimer(new)) ELSE cleaned

\* A mutant: the palette cycle skips "fire".
PlasmaCycleSkips(f, key) ==
    LET f1 == IF key.name = "c"
              THEN [f EXCEPT !.palette =
                        IF @ = "gray" THEN "rainbow"
                        ELSE IF @ = "rainbow" THEN "ocean" ELSE "gray"]
              ELSE f
    IN IF key.name = "d"
       THEN [f1 EXCEPT !.charSet =
                 IF @ = "blocks" THEN "dots"
                 ELSE IF @ = "dots" THEN "ascii" ELSE "blocks"]
       ELSE f1

\* C: gray -> rainbow -> fire -> ocean -> gray; D: blocks -> dots -> ascii -> blocks
PlasmaCycle(f, key) ==
    LET f1 == IF key.name = "c"
              THEN [f EXCEPT !.palette =
                        IF @ = "gray" THEN "rainbow"
                        ELSE IF @ = "rainbow" THEN "fire"
                        ELSE IF @ = "fire" THEN "ocean" ELSE "gray"]
              ELSE f
    IN IF key.name = "d"
       THEN [f1 EXCEPT !.charSet =
                 IF @ = "blocks" THEN "dots"
                 ELSE IF @ = "dots" THEN "ascii" ELSE "blocks"]
       ELSE f1

\* A mutant: the speed is not clamped from above.
PlasmaAdjustUnclamped(f, key) ==
    IF key.name = "left" \/ key.name = "right"
    THEN LET delta == IF key.name = "right" THEN 1 ELSE -1
         IN IF f.focusedSlider = "scale"
            THEN [f EXCEPT !.scale = Max(1, Min(20, @ + delta))]
            ELSE IF f.focusedSlider = "speed"
                 THEN [f EXCEPT !.speed = Max(10, @ + delta * 10)]
                 ELSE f
    ELSE f

\* Adjust the focused slider with the arrow keys.
PlasmaAdjust(f, key) ==
    IF key.name = "left" \/ key.name = "right"
    THEN LET delta == IF key.name = "right" THEN 1 ELSE -1
         IN IF f.focusedSlider = "scale"
            THEN [f EXCEPT !.scale = Max(1, Min(20, @ + delta))]
            ELSE IF f.focusedSlider = "speed"
                 THEN [f EXCEPT !.speed = Max(10, Min(200, @ + delta * 10))]
                 ELSE f
    ELSE f

PlasmaUpdated(f, key) ==
    LET f1 == IF key.name = "space" THEN [f EXCEPT !.playing = ~@] ELSE f
        f2 == PlasmaCycle(f1, key)
        f3 == IF key.name = "tab"
              THEN [f2 EXCEPT !.focusedSlider = IF @ = "scale" THEN "speed" ELSE "scale"]
              ELSE f2
    IN PlasmaAdjust(f3, key)

\* ---- Marquee ---------------------------------------------------------------
MESSAGES ==
    <<"BREAKING NEWS: MATT IS BAD AT JAVASCRIPT", "HELLO WORLD", "LIVE UPDATE",
      "GENERATIVE ART", "TUI ROCKS">>

PALETTE_KEYS == <<"amber", "green", "blue", "red", "white">>

\* The number of characters of a message.
TextLength(message) ==
    CASE message = "BREAKING NEWS: MATT IS BAD AT JAVASCRIPT" -> 40
      [] message = "HELLO WORLD" -> 11
      [] message = "LIVE UPDATE" -> 11
      [] message = "GENERATIVE ART" -> 14
      [] message = "TUI ROCKS" -> 9
      [] OTHER -> 5

\* renderText(message)[0].length: LETTER_WIDTH + LETTER_SPACING columns per
\* character; MESSAGES[messageIndex] ?? "HELLO"
TextWidth(messageIndex) ==
    IF messageIndex >= 0 /\ messageIndex < Len(MESSAGES)
    THEN (5 + 1) * TextLength(MESSAGES[messageIndex + 1])
    ELSE (5 + 1) * TextLength("HELLO")

\* the width prop: CANVAS_WIDTH
MarqueeWidth == 100

MarqueeUnmounted ==
    [mounted |-> FALSE, speed |-> 0, playing |-> FALSE, messageIndex |-> 0,
     paletteIndex |-> 0, focusedSlider |-> "none", offset |-> 0, pending |-> FALSE,
     ref |-> [paletteIndex |-> 0, textWidth |-> 0, offset |-> 0]]

\* useEffect(() => { stateRef.current = {paletteIndex, renderedText, textWidth, .., offset} })
MarqueeSync(f) ==
    [f EXCEPT !.ref = [paletteIndex |-> f.paletteIndex,
                       textWidth |-> TextWidth(f.messageIndex), offset |-> f.offset]]

\* useState initial values
MarqueeMounted ==
    MarqueeSync([mounted |-> TRUE, speed |-> 50, playing |-> TRUE,
                 messageIndex |-> 0, paletteIndex |-> 0,
                 focusedSlider |-> "speed", offset |-> 0, pending |-> FALSE,
                 ref |-> [paletteIndex |-> 0, textWidth |-> 0, offset |-> 0]])

\* const increment = speed / 50, in units of 0.2
MarqueeIncrement(spd) == spd \div 10

\* The interval closes over increment (speed) and textWidth.
MarqueeTimer(f) ==
    [owner |-> "marquee", speed |-> f.speed, textWidth |-> TextWidth(f.messageIndex)]

\* The animation effect, deps [playing, speed, textWidth, width].
MarqueeInterval(prev, new, tm) ==
    IF <<new.playing, new.speed, TextWidth(new.messageIndex)>>
          = <<prev.playing, prev.speed, TextWidth(prev.messageIndex)>> THEN tm
    ELSE LET cleaned == IF prev.playing THEN clearInterval(tm, MarqueeTimer(prev))
                        ELSE tm
         IN IF new.playing THEN setInterval(cleaned, MarqueeTimer(new)) ELSE cleaned

\* setOffset(prev => { const next = prev + increment;
\*                     if (next > textWidth + width) return 0; return next })
MarqueeAdvance(offset, closure) ==
    LET nxt == offset + MarqueeIncrement(closure.speed)
    IN IF nxt > 5 * (closure.textWidth + MarqueeWidth) THEN 0 ELSE nxt

\* A mutant: C stays on the last palette instead of wrapping.
MarqueeCycleSticks(f, key) ==
    LET f1 == IF key.name = "m"
              THEN [f EXCEPT !.messageIndex = (@ + 1) % Len(MESSAGES)] ELSE f
    IN IF key.name = "c"
       THEN [f1 EXCEPT !.paletteIndex = Min(@ + 1, Len(PALETTE_KEYS) - 1)] ELSE f1

\* M: (i + 1) % MESSAGES.length; C: (i + 1) % PALETTE_KEYS.length
MarqueeCycle(f, key) ==
    LET f1 == IF key.name = "m"
              THEN [f EXCEPT !.messageIndex = (@ + 1) % Len(MESSAGES)] ELSE f
    IN IF key.name = "c"
       THEN [f1 EXCEPT !.paletteIndex = (@ + 1) % Len(PALETTE_KEYS)] ELSE f1

\* The updaters of one key event.  When messageIndex changed, the effect
\* useEffect(() => { setOffset(0) }, [messageIndex]) runs after this commit:
\* its update is pending, and the offset is still the old one.
MarqueeUpdated(f, key) ==
    LET f1 == IF key.name = "space" THEN [f EXCEPT !.playing = ~@] ELSE f
        f2 == MarqueeCycle(f1, key)
        f3 == IF (key.name = "left" \/ key.name = "right") /\ f.focusedSlider = "speed"
              THEN [f2 EXCEPT !.speed =
                       Max(10, Min(200, @ + (IF key.name = "right" THEN 1 ELSE -1) * 10))]
              ELSE f2
    IN IF f3.messageIndex # f.messageIndex THEN [f3 EXCEPT !.pending = TRUE] ELSE f3

\* ---- Menu and App ----------------------------------------------------------
\* Menu's preview timer: setInterval(() => setTime(t => t + 0.015), 50)
MenuTimer == [owner |-> "menu", speed |-> 0, textWidth |-> 0]

\* Nothing rendered by a postProcess function yet.
NoFrame == [owner |-> "none", time |-> 0, seed |-> 0, snap |-> [time |-> 0]]

\* createRoot(renderer).render(<App />): the menu is shown, its preview timer
\* runs, and the noise module was seeded with 0 when it was loaded.
AppInit ==
    /\ BatchIdle /\ LifeIdle /\ GolIdle /\ FractalIdle /\ FxIdle /\ NoiseIdle
    /\ app = [experiment |-> "menu", alive |-> TRUE, menuTime |-> 0]
    /\ flow = FlowUnmounted
    /\ plasma = PlasmaUnmounted
    /\ marquee = MarqueeUnmounted
    /\ timers = SetToBag({MenuTimer})
    /\ postFns = EmptyBag
    /\ noiseSeed = 0
    /\ frame = NoFrame

\* A mutant: key 2 opens the marquee and key 3 the plasma.
MenuTargetSwapped(key) ==
    IF key.raw = "3" THEN "plasma"
    ELSE IF key.raw = "2" THEN "marquee"
    ELSE IF key.raw = "1" THEN "flow"
    ELSE "menu"

\* if (key.raw === "1") onSelect("flow"); if (key.raw === "2") onSelect("plasma");
\* if (key.raw === "3") onSelect("marquee"): the last call wins.
MenuTarget(key) ==
    IF key.raw = "3" THEN "marquee"
    ELSE IF key.raw = "2" THEN "plasma"
    ELSE IF key.raw = "1" THEN "flow"
    ELSE "menu"

\* Menu.useKeyboard, and the commit that follows: Menu unmounts (its effect's
\* cleanup clears the preview timer) and the chosen experiment mounts (its
\* effects run: stateRef, seed(seedValue), the interval, addPostProcessFn).
MenuKey(key) ==
    /\ app.alive /\ app.experiment = "menu"
    /\ LET target == MenuTarget(key)
           cleared == clearInterval(timers, MenuTimer)
       IN /\ app' = [app EXCEPT !.experiment = target,
                                !.alive = IF key.name = "q" THEN FALSE ELSE @,
                                !.menuTime = IF target = "menu" THEN @ ELSE 0]
          /\ flow' = IF target = "flow" THEN FlowMounted ELSE flow
          /\ plasma' = IF target = "plasma" THEN PlasmaMounted ELSE plasma
          /\ marquee' = IF target = "marquee" THEN MarqueeMounted ELSE marquee
          /\ timers' =
               CASE target = "flow" -> setInterval(cleared, FlowTimer(FlowMounted))
                 [] target = "plasma" -> setInterval(cleared, PlasmaTimer(PlasmaMounted))
                 [] target = "marquee" -> setInterval(cleared, MarqueeTimer(MarqueeMounted))
                 [] OTHER -> timers
          /\ postFns' = IF target = "menu" THEN postFns
                        ELSE postFns (+) SetToBag({target})
          /\ noiseSeed' = IF target = "flow" THEN FlowMounted.seedValue ELSE noiseSeed
    /\ UNCHANGED frame
    /\ UNCHANGED nonAppVars

\* A mutant: leaving an experiment keeps its interval and its postProcess function.
BackToMenuLeaky(owner, closure, isPlaying) ==
    /\ app' = [app EXCEPT !.experiment = "menu", !.menuTime = 0]
    /\ timers' = setInterval(timers, MenuTimer)
    /\ postFns' = postFns

\* onBack(): App shows the menu.  The experiment unmounts (the cleanups of
\* its effects: clearInterval if an interval was made, removePostProcessFn)
\* and Menu mounts with a new preview timer.
BackToMenu(owner, closure, isPlaying) ==
    /\ app' = [app EXCEPT !.experiment = "menu", !.menuTime = 0]
    /\ timers' = setInterval(IF isPlaying THEN clearInterval(timers, closure) ELSE timers,
                             MenuTimer)
    /\ postFns' = postFns (-) SetToBag({owner})

IsBack(key) == key.name = "escape" \/ key.name = "backspace"

\* FlowField.useKeyboard for one key event, and the commit that follows.
FlowKey(key, draw) ==
    /\ app.alive /\ app.experiment = "flow"
    /\ IF IsBack(key)
       THEN /\ BackToMenu("flow", FlowTimer(flow), flow.playing)
            /\ flow' = FlowUnmounted
            /\ UNCHANGED noiseSeed
       ELSE LET new == FlowSync(FlowUpdated(flow, key, draw))
            IN /\ flow' = new
               /\ timers' = FlowInterval(flow, new, timers)
               \* useEffect(() => { seed(seedValue) }, [seedValue])
               /\ noiseSeed' = IF new.seedValue # flow.seedValue THEN new.seedValue
                               ELSE noiseSeed
               /\ UNCHANGED <<app, postFns>>
    /\ UNCHANGED <<plasma, marquee, frame>>
    /\ UNCHANGED nonAppVars

\* Plasma.useKeyboard for one key event, and the commit that follows.
PlasmaKey(key) ==
    /\ app.alive /\ app.experiment = "plasma"
    /\ IF IsBack(key)
       THEN /\ BackToMenu("plasma", PlasmaTimer(plasma), plasma.playing)
            /\ plasma' = PlasmaUnmounted
       ELSE LET new == PlasmaSync(PlasmaUpdated(plasma, key))
            IN /\ plasma' = new
               /\ timers' = PlasmaInterval(plasma, new, timers)
               /\ UNCHANGED <<app, postFns>>
    /\ UNCHANGED <<flow, marquee, noiseSeed, frame>>
    /\ UNCHANGED nonAppVars

\* Marquee.useKeyboard for one key event, and the commit that follows.
MarqueeKey(key) ==
    /\ app.alive /\ app.experiment = "marquee"
    /\ ~marquee.pending
    /\ IF IsBack(key)
       THEN /\ BackToMenu("marquee", MarqueeTimer(marquee), marquee.playing)
            /\ marquee' = MarqueeUnmounted
       ELSE LET new == MarqueeSync(MarqueeUpdated(marquee, key))
            IN /\ marquee' = new
               /\ timers' = MarqueeInterval(marquee, new, timers)
               /\ UNCHANGED <<app, postFns>>
    /\ UNCHANGED <<flow, plasma, noiseSeed, frame>>
    /\ UNCHANGED nonAppVars

\* ---- timer callbacks ------------------------------------------------------
\* setTime(t => t + timeIncrement), with the increment of the closure's speed
FlowTick ==
    /\ app.alive /\ flow.mounted
    /\ flow.time < MaxTicks * FlowIncrement(FlowMounted.speed)
    /\ \E c \in BagToSet(timers) :
          /\ c.owner = "flow"
          /\ flow' = FlowSync([flow EXCEPT !.time = @ + FlowIncrement(c.speed)])
    /\ UNCHANGED <<app, plasma, marquee, timers, postFns, noiseSeed, frame>>
    /\ UNCHANGED nonAppVars

PlasmaTick ==
    /\ app.alive /\ plasma.mounted
    /\ plasma.time < MaxTicks * PlasmaIncrement(PlasmaMounted.speed)
    /\ \E c \in BagToSet(timers) :
          /\ c.owner = "plasma"
          /\ plasma' = PlasmaSync([plasma EXCEPT !.time = @ + PlasmaIncrement(c.speed)])
    /\ UNCHANGED <<app, flow, marquee, timers, postFns, noiseSeed, frame>>
    /\ UNCHANGED nonAppVars

\* The commit of the update the offset-reset effect queued.  React runs the
\* effects of a commit and renders the updates they queue before it handles
\* another update, so no key or tick is committed in between; the renderer
\* may call postProcess in between.
MarqueeReset ==
    /\ app.alive /\ marquee.mounted
    /\ marquee.pending
    /\ marquee' = MarqueeSync([marquee EXCEPT !.offset = 0, !.pending = FALSE])
    /\ UNCHANGED <<app, flow, plasma, timers, postFns, noiseSeed, frame>>
    /\ UNCHANGED nonAppVars

\* The interval callback: setOffset(prev => ...) with the closure's increment
\* and textWidth.
MarqueeScroll ==
    /\ app.alive /\ marquee.mounted
    /\ ~marquee.pending
    /\ \E c \in BagToSet(timers) :
          /\ c.owner = "marquee"
          /\ marquee' = MarqueeSync([marquee EXCEPT !.offset = MarqueeAdvance(@, c)])
    /\ UNCHANGED <<app, flow, plasma, timers, postFns, noiseSeed, frame>>
    /\ UNCHANGED nonAppVars

\* The ticks that are followed from the menu.
MarqueeTick ==
    /\ marquee.offset < MaxTicks * MarqueeIncrement(MarqueeMounted.speed)
    /\ MarqueeScroll

MenuTick ==
    /\ app.alive /\ app.experiment = "menu"
    /\ app.menuTime < MaxMenuTicks
    /\ \E c \in BagToSet(timers) : c.owner = "menu"
    /\ app' = [app EXCEPT !.menuTime = @ + 1]
    /\ UNCHANGED <<flow, plasma, marquee, timers, postFns, noiseSeed, frame>>
    /\ UNCHANGED nonAppVars

\* ---- the renderer calls a registered postProcess function -----------------
\* It reads stateRef.current once, into constants every cell of the frame is
\* sampled with (and, in the flow field, it reads the noise tables).
Render ==
    /\ app.alive
    /\ \E fn \in BagToSet(postFns) :
          frame' = [owner |-> fn,
                    time |-> CASE fn = "flow" -> flow.ref.time
                               [] fn = "plasma" -> plasma.ref.time
                               [] OTHER -> marquee.ref.offset,
                    seed |-> IF fn = "flow" THEN noiseSeed ELSE 0,
                    snap |-> CASE fn = "flow" -> flow.ref
                               [] fn = "plasma" -> plasma.ref
                               [] OTHER -> marquee.ref]
    /\ UNCHANGED <<app, flow, plasma, marquee, timers, postFns, noiseSeed>>
    /\ UNCHANGED nonAppVars

\* ---- key events ------------------------------------------------------------
\* Every key the handlers name except the arrow keys, and an unbound key.
AppKeys ==
    {Key("escape", "esc"), Key("backspace", "bs"), Key("space", " "),
     Key("r", "r"), Key("d", "d"), Key("c", "c"), Key("m", "m"),
     Key("tab", "tab"), Key("q", "q"), Key("1", "1"), Key("2", "2"),
     Key("3", "3"), Key("z", "z")}

\* The keys of the sliders, with those that open and leave an experiment.
SliderKeys ==
    {Key("left", "left"), Key("right", "right"), Key("tab", "tab"),
     Key("space", " "), Key("escape", "esc"),
     Key("1", "1"), Key("2", "2"), Key("3", "3")}

MenuPress == \E key \in AppKeys : MenuKey(key)
FlowPress ==
    \E key \in AppKeys :
        \E draw \in (IF key.name = "r" THEN SeedDraws ELSE {0}) : FlowKey(key, draw)
PlasmaPress == \E key \in AppKeys : PlasmaKey(key)
MarqueePress == \E key \in AppKeys : MarqueeKey(key)

AppNext ==
    \/ MenuPress \/ FlowPress \/ PlasmaPress \/ MarqueePress
    \/ FlowTick \/ PlasmaTick \/ MarqueeTick \/ MenuTick
    \/ MarqueeReset
    \/ Render

SpecApp == AppInit /\ [][AppNext]_vars

MenuSlide == \E key \in SliderKeys : MenuKey(key)
FlowSlide == \E key \in SliderKeys : FlowKey(key, 0)
PlasmaSlide == \E key \in SliderKeys : PlasmaKey(key)
MarqueeSlide == \E key \in SliderKeys : MarqueeKey(key)

SlidersNext ==
    \/ MenuSlide \/ FlowSlide \/ PlasmaSlide \/ MarqueeSlide
    \/ FlowTick \/ PlasmaTick \/ MarqueeTick

SpecSliders == AppInit /\ [][SlidersNext]_vars

\* ---- C12 -------------------------------------------------------------------
InSliderRange(f) == f.scale \in 1 .. 20 /\ f.speed \in 10 .. 200

\* An arrow key pressed in the flow field / plasma (not leaving it).
FlowArrow(name) == FlowKey(Key(name, name), 0) /\ flow'.mounted
PlasmaArrow(name) == PlasmaKey(Key(name, name)) /\ plasma'.mounted

\* C12: in the Flow Field and in Plasma the stored scale is always within
\* [1,20] and the stored speed within [10,200], and an adjustment at a bound
\* in the bound's direction stores the bound itself.
C12_SlidersClamped ==
    [][/\ flow'.mounted => InSliderRange(flow')
       /\ plasma'.mounted => InSliderRange(plasma')
       /\ (FlowArrow("right") /\ flow.focusedSlider = "scale" /\ flow.scale = 20)
             => flow'.scale = 20
       /\ (FlowArrow("left") /\ flow.focusedSlider = "scale" /\ flow.scale = 1)
             => flow'.scale = 1
       /\ (FlowArrow("right") /\ flow.focusedSlider = "speed" /\ flow.speed = 200)
             => flow'.speed = 200
       /\ (FlowArrow("left") /\ flow.focusedSlider = "speed" /\ flow.speed = 10)
             => flow'.speed = 10
       /\ (PlasmaArrow("right") /\ plasma.focusedSlider = "scale" /\ plasma.scale = 20)
             => plasma'.scale = 20
       /\ (PlasmaArrow("left") /\ plasma.focusedSlider = "scale" /\ plasma.scale = 1)
             => plasma'.scale = 1
       /\ (PlasmaArrow("right") /\ plasma.focusedSlider = "speed" /\ plasma.speed = 200)
             => plasma'.speed = 200
       /\ (PlasmaArrow("left") /\ plasma.focusedSlider = "speed" /\ plasma.speed = 10)
             => plasma'.speed = 10]_vars

\* Both sliders of the flow field have been driven to their upper bounds.
C12_Witness ==
    /\ flow.mounted
    /\ flow.scale = 20 /\ flow.speed = 200

\* ========================================================================
\* FractalExplorer controls
\* ========================================================================
\* centerX, centerY and zoom are fractions <<numerator, denominator>> in
\* lowest terms; juliaReal and juliaImag are in units of 0.00005, so that
\* -0.7, 0.27015 and the step 0.05 are whole numbers.

\* zoom-in keys are followed while the zoom is below this value
MaxZoom == 3
\* at most this many of zoom, maxIterations, juliaReal, juliaImag are away
\* from the values they are mounted with
MaxMoved == 1

RECURSIVE GCD(_, _)
GCD(a, b) == IF b = 0 THEN a ELSE GCD(b, a % b)

Abs(a) == IF a < 0 THEN -a ELSE a

\* n / d in lowest terms (d > 0)
Frac(n, d) == LET g == GCD(Abs(n), d) IN <<n \div g, d \div g>>

FracAdd(a, b) == Frac(a[1] * b[2] + b[1] * a[2], a[2] * b[2])
FracSub(a, b) == Frac(a[1] * b[2] - b[1] * a[2], a[2] * b[2])
FracLess(a, b) == a[1] * b[2] < b[1] * a[2]

\* DEFAULT_PARAMS and the useState initial values
FxMounted ==
    [mounted |-> TRUE, centerX |-> <<-1, 2>>, centerY |-> <<0, 1>>, zoom |-> <<1, 1>>,
     maxIterations |-> 100, juliaMode |-> FALSE,
     juliaReal |-> -14000, juliaImag |-> 5403,
     colorMode |-> TRUE, focusedSlider |-> "iterations"]

\* panAmount = 0.5 / zoom; left/right move centerX, up/down centerY
FxPan(f, key) ==
    LET panAmount == Frac(f.zoom[2], 2 * f.zoom[1])
        f1 == IF key.name = "left" THEN [f EXCEPT !.centerX = FracSub(@, panAmount)] ELSE f
        f2 == IF key.name = "right" THEN [f1 EXCEPT !.centerX = FracAdd(@, panAmount)] ELSE f1
        f3 == IF key.name = "up" THEN [f2 EXCEPT !.centerY = FracSub(@, panAmount)] ELSE f2
    IN IF key.name = "down" THEN [f3 EXCEPT !.centerY = FracAdd(@, panAmount)] ELSE f3

IsZoomIn(key) == key.raw = "+" \/ key.raw = "=" \/ key.raw = "]"
IsZoomOut(key) == key.raw = "-" \/ key.raw = "_" \/ key.raw = "["

\* A mutant: zooming out has no floor.
FxZoomNoFloor(f, key) ==
    LET f1 == IF IsZoomIn(key) THEN [f EXCEPT !.zoom = Frac(3 * @[1], 2 * @[2])] ELSE f
    IN IF IsZoomOut(key) THEN [f1 EXCEPT !.zoom = Frac(2 * @[1], 3 * @[2])] ELSE f1

\* setZoom(z => z * 1.5); setZoom(z => Math.max(0.1, z / 1.5))
FxZoom(f, key) ==
    LET f1 == IF IsZoomIn(key) THEN [f EXCEPT !.zoom = Frac(3 * @[1], 2 * @[2])] ELSE f
    IN IF IsZoomOut(key)
       THEN [f1 EXCEPT !.zoom = LET z == Frac(2 * @[1], 3 * @[2])
                                IN IF FracLess(z, <<1, 10>>) THEN <<1, 10>> ELSE z]
       ELSE f1

\* Reset view: centerX = juliaMode ? 0 : DEFAULT_PARAMS.centerX, with the
\* juliaMode of the render the handler belongs to.
FxReset(f, key, juliaMode) ==
    IF key.name = "r"
    THEN [f EXCEPT !.centerX = IF juliaMode THEN <<0, 1>> ELSE FxMounted.centerX,
                   !.centerY = FxMounted.centerY,
                   !.zoom = FxMounted.zoom]
    ELSE f

\* Tab: iterations -> juliaReal -> juliaImag -> iterations in Julia mode,
\* otherwise iterations.
FxTab(f, key, juliaMode) ==
    IF key.name = "tab"
    THEN [f EXCEPT !.focusedSlider =
             IF juliaMode
             THEN (IF @ = "iterations" THEN "juliaReal"
                   ELSE IF @ = "juliaReal" THEN "juliaImag" ELSE "iterations")
             ELSE "iterations"]
    ELSE f

IsLess(key) == key.raw = "," \/ key.raw = "<"
IsMore(key) == key.raw = "." \/ key.raw = ">"

\* A mutant: juliaImag is not clamped from above.
FxAdjustUnclamped(f, key, focused) ==
    LET f1 == IF focused = "iterations"
              THEN [f EXCEPT !.maxIterations =
                       LET lo == IF IsLess(key) THEN Max(20, @ - 20) ELSE @
                       IN IF IsMore(key) THEN Min(500, lo + 20) ELSE lo]
              ELSE f
        f2 == IF focused = "juliaReal"
              THEN [f1 EXCEPT !.juliaReal =
                       LET lo == IF IsLess(key) THEN Max(-40000, @ - 1000) ELSE @
                       IN IF IsMore(key) THEN Min(40000, lo + 1000) ELSE lo]
              ELSE f1
    IN IF focused = "juliaImag"
       THEN [f2 EXCEPT !.juliaImag =
                LET lo == IF IsLess(key) THEN Max(-40000, @ - 1000) ELSE @
                IN IF IsMore(key) THEN lo + 1000 ELSE lo]
       ELSE f2

\* Adjust the focused slider with < and >, with the focusedSlider of the
\* render the handler belongs to.
FxAdjust(f, key, focused) ==
    LET f1 == IF focused = "iterations"
              THEN [f EXCEPT !.maxIterations =
                       LET lo == IF IsLess(key) THEN Max(20, @ - 20) ELSE @
                       IN IF IsMore(key) THEN Min(500, lo + 20) ELSE lo]
              ELSE f
        f2 == IF focused = "juliaReal"
              THEN [f1 EXCEPT !.juliaReal =
                       LET lo == IF IsLess(key) THEN Max(-40000, @ - 1000) ELSE @
                       IN IF IsMore(key) THEN Min(40000, lo + 1000) ELSE lo]
              ELSE f1
    IN IF focused = "juliaImag"
       THEN [f2 EXCEPT !.juliaImag =
                LET lo == IF IsLess(key) THEN Max(-40000, @ - 1000) ELSE @
                IN IF IsMore(key) THEN Min(40000, lo + 1000) ELSE lo]
       ELSE f2

\* The state after the updaters the handler queues, in its order.
FxUpdated(f, key) ==
    LET f1 == FxZoom(FxPan(f, key), key)
        f2 == IF key.name = "m" THEN [f1 EXCEPT !.juliaMode = ~@] ELSE f1
        f3 == IF key.name = "c" THEN [f2 EXCEPT !.colorMode = ~@] ELSE f2
        f4 == FxReset(f3, key, f.juliaMode)
        f5 == FxTab(f4, key, f.juliaMode)
    IN FxAdjust(f5, key, f.focusedSlider)

\* How many of the four parameters are away from their mount values.
Moved(f) ==
    Cardinality({p \in {"zoom", "maxIterations", "juliaReal", "juliaImag"} :
                    f[p] # FxMounted[p]})

\* FractalExplorer.useKeyboard for one key event.
FxKey(key) ==
    /\ screen = "fractal"
    /\ fx.mounted
    /\ IsZoomIn(key) => FracLess(fx.zoom, <<MaxZoom, 1>>)
    /\ IF IsBack(key)
       THEN /\ screen' = "menu"
            /\ fx' = FxUnmounted
       ELSE /\ Moved(FxUpdated(fx, key)) <= MaxMoved
            /\ fx' = FxUpdated(fx, key)
            /\ UNCHANGED screen
    /\ UNCHANGED <<grid, wrap, generation, playing, speed, density, patternIndex,
                   focusedSlider>>
    /\ UNCHANGED <<batchVars, lifeCallVars, fractalVars, appVars, noiseVars>>

\* Menu: key 1 mounts a new FractalExplorer; what an earlier GameOfLife held
\* is gone.
MenuOpenFractal ==
    /\ screen = "menu"
    /\ screen' = "fractal"
    /\ fx' = FxMounted
    /\ grid' = <<>> /\ wrap' = TRUE
    /\ generation' = 0 /\ playing' = FALSE /\ speed' = 0 /\ density' = 0
    /\ patternIndex' = 0 /\ focusedSlider' = "none"
    /\ UNCHANGED <<batchVars, lifeCallVars, fractalVars, appVars, noiseVars>>

\* The keys of FractalExplorer other than the pan keys, and an unbound key.
FxKeys ==
    {Key("escape", "esc"), Key("m", "m"), Key("c", "c"), Key("r", "r"),
     Key("tab", "tab"), Key("z", "z")}
    \cup {Key(c, c) : c \in {"+", "=", "]", "-", "_", "[", ",", "<", ".", ">"}}

\* The slider keys of GameOfLife, with play/pause and Esc.
GolSliderKeys ==
    {Key("escape", "esc"), Key("tab", "tab"), Key("space", " ")}
    \cup {Key(c, c) : c \in {",", "<", ".", ">"}}

FxPress == \E key \in FxKeys : FxKey(key)
GolSlide == \E key \in GolSliderKeys : GolKey(key, "dead")

\* The menu of the fractal / life / flow application is shown.
ControlsInit ==
    /\ BatchIdle /\ LifeIdle /\ FractalIdle /\ FxIdle /\ AppIdle /\ NoiseIdle
    /\ screen = "menu"
    /\ generation = 0 /\ playing = FALSE /\ speed = 0 /\ density = 0
    /\ patternIndex = 0 /\ focusedSlider = "none"

ControlsNext == MenuOpenFractal \/ MenuOpenLife \/ FxPress \/ GolSlide

SpecControls == ControlsInit /\ [][ControlsNext]_vars

\* C13: the Fractal Explorer's maxIterations stays within [20,500],
\* juliaReal and juliaImag within [-2,2] and zoom at or above 0.1; the Game
\* of Life's tick interval stays within [25,500] ms and its density within
\* [10,90] percent.
C13_ControlsInRange ==
    /\ fx.mounted =>
          /\ fx.maxIterations >= 20 /\ fx.maxIterations <= 500
          /\ fx.juliaReal >= -40000 /\ fx.juliaReal <= 40000
          /\ fx.juliaImag >= -40000 /\ fx.juliaImag <= 40000
          /\ ~FracLess(fx.zoom, <<1, 10>>)
    /\ screen = "life" =>
          /\ speed >= 25 /\ speed <= 500
          /\ density >= 10 /\ density <= 90

\* juliaImag, which is not a multiple of its step, was driven into its upper
\* bound.
C13_Witness ==
    /\ fx.mounted
    /\ fx.juliaImag = 40000

\* ---- C14 -------------------------------------------------------------------
\* A timer callback runs.
TimerStep == FlowTick \/ PlasmaTick \/ MarqueeTick \/ MenuTick

\* The live intervals made by an experiment's animation effect.
TimersOf(tm, owner) == {c \in BagToSet(tm) : c.owner = owner}

C15_TickAddsSpeedShare ==
    [][/\ FlowTick => (flow.playing /\ flow'.time = flow.time + 12 * flow.speed)
       /\ PlasmaTick => (plasma.playing /\ plasma'.time = plasma.time + 6 * plasma.speed)
       /\ \A c \in TimersOf(timers', "flow") : c.speed = flow'.speed
       /\ \A c \in TimersOf(timers', "plasma") : c.speed = plasma'.speed
       /\ (flow.mounted /\ flow'.mounted /\ flow'.speed # flow.speed)
             => /\ flow'.time = flow.time
                /\ flow'.playing = flow.playing
                /\ flow'.scale = flow.scale
       /\ (plasma.mounted /\ plasma'.mounted /\ plasma'.speed # plasma.speed)
             => /\ plasma'.time = plasma.time
                /\ plasma'.playing = plasma.playing
                /\ plasma'.scale = plasma.scale]_vars

\* The flow field ticked once at speed 10 and once at speed 30.
C15_Witness ==
    /\ flow.mounted /\ flow.playing
    /\ flow.speed = 30
    /\ flow.time = 12 * 10 + 12 * 30

\* ---- C16 -------------------------------------------------------------------
\* The R key pressed in the flow field, with the seed Math.random() gives.
FlowRandomize(draw) == FlowKey(Key("r", "r"), draw)

\* C16: R in the flow field stores the drawn integer seed and resets the time
\* to zero, leaving play state, scale, speed, display mode, colour mode and
\* slider focus as they are; the noise tables are always those of the stored
\* seed, so every frame rendered afterwards samples the new seed's tables.
C16_RandomizeReseeds ==
    [][/\ \A draw \in SeedDraws :
             FlowRandomize(draw)
                => /\ flow'.seedValue = draw /\ draw \in 0 .. 99999
                   /\ flow'.time = 0 /\ flow'.ref.time = 0
                   /\ noiseSeed' = draw
                   /\ flow'.playing = flow.playing
                   /\ flow'.scale = flow.scale
                   /\ flow'.speed = flow.speed
                   /\ flow'.displayMode = flow.displayMode
                   /\ flow'.colorMode = flow.colorMode
                   /\ flow'.focusedSlider = flow.focusedSlider
                   /\ timers' = timers /\ postFns' = postFns /\ app' = app
       /\ flow'.mounted => noiseSeed' = flow'.seedValue
       /\ (Render /\ flow.mounted)
             => (frame'.owner = "flow" /\ frame'.seed = flow.seedValue)]_vars

\* R was pressed in a paused flow field showing lines, and a frame was
\* rendered from the new seed at time zero.
C16_Witness ==
    /\ flow.mounted /\ ~flow.playing /\ flow.displayMode = "lines"
    /\ flow.seedValue = 7 /\ noiseSeed = 7
    /\ frame.owner = "flow" /\ frame.time = 0 /\ frame.seed = 7

\* ---- C17 -------------------------------------------------------------------
\* The orders the cycle keys step through.
DisplayOrder == <<"arrows", "lines", "dots">>
PaletteOrder == <<"gray", "rainbow", "fire", "ocean">>
CharSetOrder == <<"blocks", "dots", "ascii">>
ColorOrder == <<"amber", "green", "blue", "red", "white">>

Members(order) == {order[i] : i \in 1 .. Len(order)}

\* The member after v, the first one after the last.
After(order, v) ==
    LET i == CHOOSE j \in 1 .. Len(order) : order[j] = v
    IN order[(i % Len(order)) + 1]

\* The state after n presses of one key.
RECURSIVE FlowPressed(_, _, _)
FlowPressed(f, key, n) ==
    IF n = 0 THEN f ELSE FlowPressed(FlowUpdated(f, key, 0), key, n - 1)

RECURSIVE PlasmaPressed(_, _, _)
PlasmaPressed(f, key, n) ==
    IF n = 0 THEN f ELSE PlasmaPressed(PlasmaUpdated(f, key), key, n - 1)

RECURSIVE MarqueePressed(_, _, _)
MarqueePressed(f, key, n) ==
    IF n = 0 THEN f ELSE MarqueePressed(MarqueeUpdated(f, key), key, n - 1)

\* C17: the cycle keys step through fixed orders and wrap around.  Flow field
\* D: arrows, lines, dots; plasma C: gray, rainbow, fire, ocean; plasma D:
\* blocks, dots, ascii; marquee C: amber, green, blue, red, white; marquee M:
\* the preset messages in their order.  The stored value is always a member of
\* its cycle, and pressing a key as many times as its cycle is long gives the
\* value it started from.
C17_CyclesWrap ==
    [][/\ FlowKey(Key("d", "d"), 0)
             => flow'.displayMode = After(DisplayOrder, flow.displayMode)
       /\ PlasmaKey(Key("c", "c"))
             => plasma'.palette = After(PaletteOrder, plasma.palette)
       /\ PlasmaKey(Key("d", "d"))
             => plasma'.charSet = After(CharSetOrder, plasma.charSet)
       /\ MarqueeKey(Key("c", "c"))
             => PALETTE_KEYS[marquee'.paletteIndex + 1]
                   = After(ColorOrder, PALETTE_KEYS[marquee.paletteIndex + 1])
       /\ MarqueeKey(Key("m", "m"))
             => MESSAGES[marquee'.messageIndex + 1]
                   = After(MESSAGES, MESSAGES[marquee.messageIndex + 1])
       /\ flow'.mounted
             => /\ flow'.displayMode \in Members(DisplayOrder)
                /\ FlowPressed(flow', Key("d", "d"), 3).displayMode = flow'.displayMode
       /\ plasma'.mounted
             => /\ plasma'.palette \in Members(PaletteOrder)
                /\ plasma'.charSet \in Members(CharSetOrder)
                /\ PlasmaPressed(plasma', Key("c", "c"), 4).palette = plasma'.palette
                /\ PlasmaPressed(plasma', Key("d", "d"), 3).charSet = plasma'.charSet
       /\ marquee'.mounted
             => /\ marquee'.paletteIndex \in 0 .. Len(PALETTE_KEYS) - 1
                /\ marquee'.messageIndex \in 0 .. Len(MESSAGES) - 1
                /\ MarqueePressed(marquee', Key("c", "c"), 5).paletteIndex
                      = marquee'.paletteIndex
                /\ MarqueePressed(marquee', Key("m", "m"), 5).messageIndex
                      = marquee'.messageIndex]_vars

\* The plasma shows the last palette and the last character set of the cycles.
C17_Witness ==
    /\ plasma.mounted
    /\ plasma.palette = "ocean"
    /\ plasma.charSet = "ascii"

\* ---- C18 -------------------------------------------------------------------
\* C18: a key event in the Game of Life performs one controller action: it
\* never both steps the simulation and adjusts a slider, and a key no branch
\* of the handler names changes nothing.
C18_OneActionPerKey ==
    [][/\ GolPress
             => ~(/\ generation' = generation + 1
                  /\ (speed' # speed \/ density' # density))
       /\ GolKey(Key("z", "z"), "dead")
             => UNCHANGED <<grid, wrap, screen, generation, playing, speed,
                            density, patternIndex, focusedSlider>>]_vars

\* The paused simulation was stepped once and the tick interval went from
\* 100 to 75.
C18_Witness ==
    /\ screen = "life" /\ ~playing
    /\ generation = 1
    /\ speed = 75

\* ---- C19 -------------------------------------------------------------------
Screens == {"menu", "flow", "plasma", "marquee"}
NumberKeys == {Key("1", "1"), Key("2", "2"), Key("3", "3")}
BackKeys == {Key("escape", "esc"), Key("backspace", "bs")}

\* C19: the application is always on exactly one screen, and only that
\* screen's component is mounted.  From the menu 1, 2 and 3 open the flow
\* field, the plasma and the marquee, and Q quits.  In an experiment Esc and
\* Backspace return to the menu and do nothing else, and the number keys do
\* not navigate.
C19_OneScreen ==
    [][/\ app'.experiment \in Screens
       /\ flow'.mounted <=> app'.experiment = "flow"
       /\ plasma'.mounted <=> app'.experiment = "plasma"
       /\ marquee'.mounted <=> app'.experiment = "marquee"
       /\ MenuKey(Key("1", "1")) => (app'.experiment = "flow" /\ app'.alive)
       /\ MenuKey(Key("2", "2")) => (app'.experiment = "plasma" /\ app'.alive)
       /\ MenuKey(Key("3", "3")) => (app'.experiment = "marquee" /\ app'.alive)
       /\ MenuKey(Key("q", "q")) => (~app'.alive /\ app'.experiment = "menu")
       /\ \A key \in BackKeys :
             (FlowKey(key, 0) \/ PlasmaKey(key) \/ MarqueeKey(key))
                => /\ app'.experiment = "menu" /\ app'.alive
                   /\ noiseSeed' = noiseSeed /\ frame' = frame
       /\ \A key \in NumberKeys :
             (FlowKey(key, 0) \/ PlasmaKey(key) \/ MarqueeKey(key))
                => UNCHANGED <<app, flow, plasma, marquee, timers, postFns,
                               noiseSeed, frame>>]_vars

\* The marquee was opened and rendered, left again, and the program was quit
\* from the menu.
C19_Witness ==
    /\ ~app.alive
    /\ app.experiment = "menu"
    /\ frame.owner = "marquee"

\* ---- C20 -------------------------------------------------------------------
\* The live interval an experiment in this state must own: one while playing,
\* none while paused.
OwnInterval(f, closure) == IF f.playing THEN SetToBag({closure}) ELSE EmptyBag

RECURSIVE Normalize(_, _, _)
Normalize(cols, i, carry) ==
    IF i > Len(cols) THEN <<>>
    ELSE LET v == cols[i] + carry
         IN <<v % 4096>> \o Normalize(cols, i + 1, v \div 4096)

\* x * y for 0 <= x, y < 2^31, as digits.
BigMul(x, y) ==
    LET xd == <<x % 4096, (x \div 4096) % 4096, x \div 16777216>>
        yd == <<y % 4096, (y \div 4096) % 4096, y \div 16777216>>
    IN Normalize(<<xd[1] * yd[1],
                   xd[1] * yd[2] + xd[2] * yd[1],
                   xd[1] * yd[3] + xd[2] * yd[2] + xd[3] * yd[1],
                   xd[2] * yd[3] + xd[3] * yd[2],
                   xd[3] * yd[3],
                   0>>, 1, 0)

\* The double nearest to a natural below 2^64: 53 significant bits, round to
\* nearest, ties to even.  (At most 11 bits are dropped here.)
ToDouble(d) ==
    LET top == IF \A i \in 1 .. Len(d) : d[i] = 0 THEN 0
               ELSE CHOOSE i \in 1 .. Len(d) :
                        d[i] # 0 /\ \A j \in (i + 1) .. Len(d) : d[j] = 0
        bits == IF top = 0 THEN 0
                ELSE 12 * (top - 1)
                     + (CHOOSE b \in 1 .. 12 : 2^(b - 1) <= d[top] /\ d[top] < 2^b)
        k == bits - 53
    IN IF k <= 0 THEN d
       ELSE LET unit == 2^k
                r == d[1] % unit
                kept == [d EXCEPT ![1] = @ - r]
                odd == (d[1] \div unit) % 2 = 1
                up == 2 * r > unit \/ (2 * r = unit /\ odd)
            IN IF up THEN Normalize([kept EXCEPT ![1] = @ + unit], 1, 0) ELSE kept

\* s = (s * 1103515245 + 12345) & 0x7fffffff: the product and the sum are
\* doubles; & takes the integer modulo 2^32 and keeps its low 31 bits.
LcgNext(s) ==
    LET Sum(product) ==
            ToDouble(Normalize([product EXCEPT ![1] = IF s < 0 THEN @ - 12345
                                                      ELSE @ + 12345], 1, 0))
        Low(sum) == sum[1] + 4096 * sum[2] + 16777216 * (sum[3] % 128)
        Masked(low) ==
            IF s < 0 THEN (IF low = 0 THEN 0 ELSE (2147483647 - low) + 1) ELSE low
    IN Masked(Low(Sum(ToDouble(BigMul(IF s < 0 THEN -s ELSE s, 1103515245)))))

\* A mutant: the index is rounded up, as if random() could return 1.
RandomIndexInclusive(s, n) ==
    LET product == BigMul(s, n)
        hi == (product[3] \div 128) + 32 * product[4]
    IN hi + 1

\* Math.floor(random() * n) with random() = s / 0x7fffffff, for 1 <= n <= 256.
\* s * n = hi * 2^31 + lo, so its quotient by 2^31 - 1 is hi, or hi + 1 when
\* hi + lo reaches 2^31 - 1; the double quotient and product round to the
\* same integer part (s * n / (2^31 - 1) is an integer or at least 2^-31 away
\* from one).
RandomIndex(s, n) ==
    LET product == BigMul(s, n)
        lo == product[1] + 4096 * product[2] + 16777216 * (product[3] % 128)
        hi == (product[3] \div 128) + 32 * product[4]
    IN IF lo >= 2147483647 - hi THEN hi + 1 ELSE hi

\* const p = new Uint8Array(256); for (let i = 0; i < 256; i++) { p[i] = i }
Ascending == [n \in 1 .. 256 |-> n - 1]

\* One turn of the shuffle loop:
\*   const j = Math.floor(random() * (i + 1)); [p[i], p[j]] = [p[j], p[i]]
\* p is a Uint8Array(256): reading past its end gives undefined, which is
\* stored as 0, and writing past its end is ignored.  `over` keeps the
\* largest j - i seen and `least` the smallest j.
ShuffleStep(st, i) ==
    LET ReadByte(n) == IF n < Len(st.p) THEN st.p[n + 1] ELSE 0
        WriteByte(q, n, v) == IF n < Len(q) THEN [q EXCEPT ![n + 1] = v] ELSE q
        Swap(s1, j) ==
            [p |-> WriteByte(WriteByte(st.p, i, ReadByte(j)), j, ReadByte(i)),
             s |-> s1,
             over |-> IF j - i > st.over THEN j - i ELSE st.over,
             least |-> IF j < st.least THEN j ELSE st.least]
        Draw(s1) == Swap(s1, RandomIndex(s1, i + 1))
    IN Draw(LcgNext(st.s))

\* for (let i = hi; i >= lo; i--) { one turn }, evaluated half by half.
RECURSIVE Shuffle(_, _, _)
Shuffle(st, hi, lo) ==
    IF hi < lo THEN st
    ELSE IF hi = lo THEN ShuffleStep(st, hi)
    ELSE LET mid == (hi + lo) \div 2
             upper == Shuffle(st, hi, mid + 1)
         IN IF Len(upper.p) < 0 THEN upper ELSE Shuffle(upper, mid, lo)

\* The 12 gradient vectors.
grad3 ==
    <<<<1, 1, 0>>, <<-1, 1, 0>>, <<1, -1, 0>>, <<-1, -1, 0>>,
      <<1, 0, 1>>, <<-1, 0, 1>>, <<1, 0, -1>>, <<-1, 0, -1>>,
      <<0, 1, 1>>, <<0, -1, 1>>, <<0, 1, -1>>, <<0, -1, -1>>>>

\* new Uint8Array(512) and new Array(512), before the module calls seed(0)
NoTables ==
    [perm |-> [n \in 1 .. 512 |-> 0], gradP |-> [n \in 1 .. 512 |-> <<>>],
     over |-> -255, least |-> 255]

\* for (let i = 0; i < 512; i++) { perm[i] = p[i & 255]; gradP[i] = grad3[perm[i] % 12] }
Doubled(p) ==
    LET perm == p \o p
    IN [perm |-> perm, gradP |-> [n \in 1 .. 512 |-> grad3[(perm[n] % 12) + 1]]]

\* A mutant: the shuffle starts from the permutation the last call left.
seedFromPrevious(value, tables) ==
    LET start == IF tables.over = -255 THEN Ascending
                 ELSE SubSeq(tables.perm, 1, 256)
        Tables(shuffled, t) ==
            [perm |-> t.perm, gradP |-> t.gradP, over |-> shuffled.over,
             least |-> shuffled.least]
        Fill(shuffled) == Tables(shuffled, Doubled(shuffled.p))
    IN Fill(Shuffle([p |-> start, s |-> value, over |-> -255, least |-> 255], 255, 1))

\* A mutant: the second half of the tables is not filled.
seedNotDoubled(value, tables) ==
    LET Tables(shuffled, t) ==
            [perm |-> SubSeq(t.perm, 1, 256) \o SubSeq(tables.perm, 257, 512),
             gradP |-> SubSeq(t.gradP, 1, 256) \o SubSeq(tables.gradP, 257, 512),
             over |-> shuffled.over, least |-> shuffled.least]
        Fill(shuffled) == Tables(shuffled, Doubled(shuffled.p))
    IN Fill(Shuffle([p |-> Ascending, s |-> value, over |-> -255, least |-> 255],
                    255, 1))

\* seed(value): the tables it leaves in the module's perm and gradP, with the
\* largest j - i and the smallest j of its shuffle.  The previous tables are in its scope; it
\* overwrites all 512 entries of both and reads none of them.
seed(value, tables) ==
    LET Tables(shuffled, t) ==
            [perm |-> t.perm, gradP |-> t.gradP, over |-> shuffled.over,
             least |-> shuffled.least]
        Fill(shuffled) == Tables(shuffled, Doubled(shuffled.p))
    IN Fill(Shuffle([p |-> Ascending, s |-> value, over |-> -255, least |-> 255],
                    255, 1))

\* if (x0 >= y0) { if (y0 >= z0) .. else if (x0 >= z0) .. else .. }
\* else { if (y0 < z0) .. else if (x0 < z0) .. else .. }: the offsets
\* <<i1, j1, k1>> and <<i2, j2, k2>> of the six branches, in the code's order.
SimplexCorners(order) ==
    CASE order = 1 -> <<<<1, 0, 0>>, <<1, 1, 0>>>>
      [] order = 2 -> <<<<1, 0, 0>>, <<1, 0, 1>>>>
      [] order = 3 -> <<<<0, 0, 1>>, <<1, 0, 1>>>>
      [] order = 4 -> <<<<0, 0, 1>>, <<0, 1, 1>>>>
      [] order = 5 -> <<<<0, 1, 0>>, <<0, 1, 1>>>>
      [] OTHER -> <<<<0, 1, 0>>, <<1, 1, 0>>>>

\* A mutant: the lattice coordinates are used without & 255.
GradientLookupsUnmasked(tables, at) ==
    LET Read(t, n) == IF n \in 0 .. 511 THEN t[n + 1] ELSE 0
        corners == <<<<0, 0, 0>>>> \o SimplexCorners(at.order) \o <<<<1, 1, 1>>>>
        Lookup(c) ==
            LET inner == at.k + c[3]
                mid == at.j + c[2] + Read(tables.perm, inner)
                outer == at.i + c[1] + Read(tables.perm, mid)
            IN [reads |-> <<inner, mid, outer>>,
                g |-> IF outer \in 0 .. 511 THEN tables.gradP[outer + 1] ELSE <<>>]
    IN [n \in 1 .. 4 |-> Lookup(corners[n])]

\* simplex3's reads of the tables for a point of lattice cell (i, j, k):
\* gradP[ii + i1 + perm[jj + j1 + perm[kk + k1]]] for each of the four
\* corners, with ii = i & 255 (the low 8 bits of the two's complement, i.e.
\* i modulo 256).  A read outside a table gives undefined.
GradientLookups(tables, at) ==
    LET Read(t, n) == IF n \in 0 .. 511 THEN t[n + 1] ELSE 0
        ii == at.i % 256
        jj == at.j % 256
        kk == at.k % 256
        corners == <<<<0, 0, 0>>>> \o SimplexCorners(at.order) \o <<<<1, 1, 1>>>>
        Lookup(c) ==
            LET inner == kk + c[3]
                mid == jj + c[2] + Read(tables.perm, inner)
                outer == ii + c[1] + Read(tables.perm, mid)
            IN [reads |-> <<inner, mid, outer>>,
                g |-> IF outer \in 0 .. 511 THEN tables.gradP[outer + 1] ELSE <<>>]
    IN [n \in 1 .. 4 |-> Lookup(corners[n])]

\* No call of simplex3 yet.
NoSample == [i |-> 0, j |-> 0, k |-> 0, order |-> 0]

\* The module as loaded: the tables are allocated and seed(0) has run.
NoiseLoaded ==
    LET t == seed(0, NoTables)
    IN [perm |-> t.perm, gradP |-> t.gradP, over |-> t.over, least |-> t.least,
        calls |-> <<0>>, at |-> NoSample, lookups |-> <<>>, sampled |-> 0]

\* ---- calls of the noise module ---------------------------------------------
\* how many calls of seed a behaviour makes, the one at load time included
MaxCalls == 3
\* how many calls of simplex3 follow one call of seed
MaxSamples == 2
\* the seeds 0 .. MaxSeed are tried one by one
MaxSeed == 40

\* The seeds a behaviour reseeds with: the flow field's first seed, a
\* negative one and the default.
Seeds == {0, 42, -5}

\* The seeds tried one by one: small ones, the largest the flow field draws,
\* and the ends of the 32-bit range.
ManySeeds == (0 .. MaxSeed) \cup {-5, -1, 99999, 2147483647, -2147483647}

\* Lattice cells on both sides of zero (-1 & 255 = 255, the last table row)
\* with each of the six corner orders.
Points == [i : {-1, 0}, j : {-1, 0}, k : {-1, 0}, order : 1 .. 6]

\* seed(value)
CallSeed(value) ==
    /\ noise # <<>>
    /\ Len(noise.calls) < MaxCalls
    /\ LET Seeded(t) ==
               [perm |-> t.perm, gradP |-> t.gradP, over |-> t.over, least |-> t.least,
                calls |-> Append(noise.calls, value),
                at |-> NoSample, lookups |-> <<>>, sampled |-> 0]
       IN noise' = Seeded(seed(value, noise))
    /\ UNCHANGED drawn
    /\ UNCHANGED nonNoiseVars

\* simplex3(x, y, z) for a point of the lattice cell `at`
CallSimplex3(at) ==
    /\ noise # <<>>
    /\ noise.sampled < MaxSamples
    /\ noise' = [noise EXCEPT !.at = at,
                              !.lookups = GradientLookups(noise, at),
                              !.sampled = @ + 1]
    /\ UNCHANGED drawn
    /\ UNCHANGED nonNoiseVars

\* Two cells and two corner orders, for the behaviours that also reseed.
FewPoints == [i : {-1}, j : {0}, k : {-1, 0}, order : {3, 4}]

Reseed == \E value \in Seeds : CallSeed(value)
Sample == \E at \in FewPoints : CallSimplex3(at)
SampleEach == \E at \in Points : CallSimplex3(at)

NoiseInit ==
    /\ BatchIdle /\ LifeIdle /\ GolIdle /\ FractalIdle /\ FxIdle /\ AppIdle
    /\ noise = NoiseLoaded
    /\ drawn = <<>>

NoiseNext == Reseed \/ Sample

SpecNoise == NoiseInit /\ [][NoiseNext]_vars

\* The module is loaded and seed is called once, with each seed in turn.
SeedsInit ==
    /\ BatchIdle /\ LifeIdle /\ GolIdle /\ FractalIdle /\ FxIdle /\ AppIdle
    /\ \E value \in ManySeeds :
          LET Seeded(t) ==
                  [perm |-> t.perm, gradP |-> t.gradP, over |-> t.over, least |-> t.least,
                   calls |-> <<0, value>>,
                   at |-> NoSample, lookups |-> <<>>, sampled |-> 0]
          IN noise = Seeded(seed(value, NoiseLoaded))
    /\ drawn = <<>>

SpecSeeds == SeedsInit /\ [][SampleEach]_vars

\* ---- C21 -------------------------------------------------------------------
\* C21: the tables depend only on the seed of the last call of seed, not on
\* the tables it found or on earlier calls (they are those a first call with
\* that seed builds, so seed(S) twice and seed(S1); seed(S2); seed(S1) end
\* with the tables of one call), and simplex3 leaves the tables as they are:
\* a second sample of the same point reads the same gradients.
C21_SeedDeterminesTables ==
    [][/\ noise'.calls # noise.calls
             => LET t == seed(noise'.calls[Len(noise'.calls)], NoTables)
                IN noise'.perm = t.perm /\ noise'.gradP = t.gradP
       /\ noise'.sampled = noise.sampled + 1
             => /\ noise'.perm = noise.perm /\ noise'.gradP = noise.gradP
                /\ noise'.calls = noise.calls
                /\ noise'.at = noise.at => noise'.lookups = noise.lookups]_vars

\* The calls were seed(0) (at load), seed(42), seed(0): the tables are those
\* of the load again, and a point was sampled twice.
C21_Witness ==
    /\ noise.calls = <<0, 42, 0>>
    /\ noise.perm = NoiseLoaded.perm
    /\ noise.sampled = 2
    /\ noise.at = [i |-> -1, j |-> 0, k |-> -1, order |-> 3]

\* ---- C22 -------------------------------------------------------------------
\* C22: after seed(S) the first 256 entries of perm hold each of 0 .. 255
\* exactly once, and every swap index j of the shuffle satisfied 0 <= j <= i.
C22_PermutationBijective ==
    /\ {noise.perm[n] : n \in 1 .. 256} = 0 .. 255
    /\ noise.over <= 0
    /\ noise.least >= 0

\* seed(-2147483647) has run (after the load's seed(0)) and was sampled.
C22_Witness ==
    /\ noise.calls = <<0, -2147483647>>
    /\ noise.perm[1] = 116
    /\ noise.sampled = 1

\* ---- C27 -------------------------------------------------------------------
\* C27: every index simplex3 uses to read perm or gradP, for each of the four
\* corners of a cell with negative or non-negative coordinates, lies in
\* 0 .. 511, and the tables are doubled: perm[n + 256] = perm[n] and
\* gradP[n] = grad3[perm[n] % 12].
C27_LookupsInTables ==
    /\ \A n \in 1 .. 256 : noise.perm[n + 256] = noise.perm[n]
    /\ \A n \in 1 .. 512 : noise.gradP[n] = grad3[(noise.perm[n] % 12) + 1]
    /\ noise.sampled > 0
          => \A c \in 1 .. 4 :
                /\ \A r \in 1 .. 3 : noise.lookups[c].reads[r] \in 0 .. 511
                /\ noise.lookups[c].g \in {grad3[n] : n \in 1 .. 12}

\* A point of the cell (-1, -1, -1) was sampled after seed(7): its last
\* corner reads perm[256] and then the upper halves of perm and gradP.
C27_Witness ==
    /\ noise.calls = <<0, 7>>
    /\ noise.at = [i |-> -1, j |-> -1, k |-> -1, order |-> 1]
    /\ noise.lookups[4].reads[1] = 256
    /\ noise.lookups[4].reads[2] >= 256
    /\ noise.lookups[4].reads[3] >= 256

\* ------------------------------------------------------------------------
\* FlowField: from a noise sample to the cell drawn
\* ------------------------------------------------------------------------
\* Noise values are in units of 0.001, so that (value + 1) / 2 is
\* (v + 1000) / 2000, and angles are in units of pi / 1000.

\* how far beyond -1 and 1 (in units of 0.001) the samples tried go
MaxExcess == 10

\* The glyph ramps, by the direction or weight of each glyph.
ARROWS == <<"E", "SE", "S", "SW", "W", "NW", "N", "NE">>
LINES == <<"horizontal", "down", "vertical", "up">>
DOTS == <<" ", "dot", "bullet", "circle", "block">>
\* COLOR_PALETTE_RGBA and GRAY_PALETTE_RGBA have six entries each.
FLOW_PALETTE == <<"p0", "p1", "p2", "p3", "p4", "p5">>

\* JavaScript's a % m for m > 0: the remainder has the sign of a.
JsRem(a, m) == IF a >= 0 THEN a % m ELSE -((-a) % m)

\* table[index]: undefined when the index is not one of the table's.
Entry(table, index) ==
    IF index \in 0 .. Len(table) - 1 THEN table[index + 1] ELSE "undefined"

\* normalized = ((angle % (2 * PI)) + 2 * PI) % (2 * PI);
\* Math.round(normalized / (PI / 4)) % 8
angleToArrowIndex(angle) ==
    LET normalized == JsRem(JsRem(angle, 2000) + 2000, 2000)
    IN JsRem((normalized + 125) \div 250, 8)

\* normalized = ((angle % PI) + PI) % PI; Math.round(normalized / (PI / 4)) % 4
angleToLineIndex(angle) ==
    LET normalized == JsRem(JsRem(angle, 1000) + 1000, 1000)
    IN JsRem((normalized + 125) \div 250, 4)

\* index = Math.floor(((value + 1) / 2) * (DOTS.length - 0.01));
\* Math.max(0, Math.min(DOTS.length - 1, index))
noiseToDotIndex(value) ==
    LET index == ((value + 1000) * (100 * Len(DOTS) - 1)) \div 200000
    IN Max(0, Min(Len(DOTS) - 1, index))

\* normalized as in angleToArrowIndex; Math.floor((normalized / (2 * PI)) * 6) % 6
angleToColorIndex(angle) ==
    LET normalized == JsRem(JsRem(angle, 2000) + 2000, 2000)
    IN JsRem((normalized * 6) \div 2000, 6)

\* Math.floor(((noise + 1) / 2) * (GRAY_PALETTE.length - 0.01))
noiseToGrayIndex(value) ==
    ((value + 1000) * (100 * Len(FLOW_PALETTE) - 1)) \div 200000

\* The body of postProcess's loops for one cell, given the sample simplex3
\* returned: the character (with its ?? fallback) and the colour entry.
FlowCell(noiseValue, displayMode, colorMode) ==
    LET angle == noiseValue + 1000
        charIndex == CASE displayMode = "arrows" -> angleToArrowIndex(angle)
                       [] displayMode = "lines" -> angleToLineIndex(angle)
                       [] OTHER -> noiseToDotIndex(noiseValue)
        glyphs == CASE displayMode = "arrows" -> ARROWS
                    [] displayMode = "lines" -> LINES
                    [] OTHER -> DOTS
        colorIdx == IF colorMode THEN angleToColorIndex(angle)
                    ELSE noiseToGrayIndex(noiseValue)
    IN [noiseValue |-> noiseValue, displayMode |-> displayMode,
        colorMode |-> colorMode,
        charIndex |-> charIndex,
        char |-> IF Entry(glyphs, charIndex) = "undefined" THEN glyphs[1]
                 ELSE Entry(glyphs, charIndex),
        colorIdx |-> colorIdx,
        fgColor |-> Entry(FLOW_PALETTE, colorIdx)]

\* The samples tried: every multiple of 0.001 from a little below -1 to a
\* little above 1.
NoiseValues == (-1000 - MaxExcess) .. (1000 + MaxExcess)

NoCell ==
    [noiseValue |-> 0, displayMode |-> "none", colorMode |-> FALSE,
     charIndex |-> 0, char |-> "none", colorIdx |-> 0, fgColor |-> "none"]

CellInit ==
    /\ BatchIdle /\ LifeIdle /\ GolIdle /\ FractalIdle /\ FxIdle /\ AppIdle
    /\ noise = <<>>
    /\ drawn = NoCell

\* postProcess draws one cell.  What it draws depends on the sample and the
\* two modes only, not on the cells drawn before it.
DrawCell ==
    /\ drawn = NoCell
    /\ \E noiseValue \in NoiseValues, displayMode \in {"arrows", "lines", "dots"},
          colorMode \in BOOLEAN :
          drawn' = FlowCell(noiseValue, displayMode, colorMode)
    /\ UNCHANGED noise
    /\ UNCHANGED nonNoiseVars

SpecCell == CellInit /\ [][DrawCell]_vars

\* ---- C23 -------------------------------------------------------------------
\* C23: for every noise sample, also a little below -1 or above 1, the glyph
\* index selects an entry of the mode's ramp and the colour index selects an
\* entry of the 6-colour palette.
C23_IndicesInRange ==
    drawn # NoCell
       => /\ drawn.charIndex \in 0 .. (CASE drawn.displayMode = "arrows" -> 7
                                         [] drawn.displayMode = "lines" -> 3
                                         [] OTHER -> 4)
          /\ drawn.colorIdx \in 0 .. 5
          /\ drawn.fgColor # "undefined"

\* A sample of -1.001 was drawn in gray mode.
C23_Witness ==
    /\ drawn.noiseValue = -1001
    /\ ~drawn.colorMode
    /\ drawn.displayMode = "dots"
    /\ drawn.colorIdx = -1

\* ---- C24 -------------------------------------------------------------------
\* The keys that start and stop the timer, step, reset or reload the grid or
\* toggle wrap-around, and one key without effect on the grid or the counter.
CounterKeys ==
    {Key("space", " "), Key("n", "n"), Key(".", "."), Key("x", "x"),
     Key("r", "r"), Key("p", "p"), Key("2", "2"), Key("9", "9"),
     Key("w", "w"), Key("z", "z")}

\* What R fills the grid with: nothing, or the diagonals.
CounterDraws == {"dead", "diagonal"}

CounterPress ==
    \E key \in CounterKeys :
        \E draw \in (IF key.name = "r" THEN CounterDraws ELSE {"dead"}) :
            GolKey(key, draw)

CounterNext == GolTick \/ CounterPress

SpecCounter == GolInit /\ [][CounterNext]_vars

\* C24: every timer tick while playing and every manual step (N or "." while
\* paused) replaces the grid by step(grid, wrap) once and adds 1 to the
\* generation counter; clear, randomize and a pattern load set the counter
\* to 0; every other key leaves both the grid and the counter alone.  The
\* counter therefore equals the number of step applications since the last
\* clear, randomize or pattern load.
C24_GenerationCountsSteps ==
    [][LET Stepped == grid' = step(grid, wrap) /\ generation' = generation + 1
           Reset == generation' = 0
           Kept == generation' = generation /\ grid' = grid
           Expected(key) ==
               IF \/ key.name \in {"x", "r", "p"}
                  \/ /\ key.raw \in {"1", "2", "3", "4", "5", "6", "7", "8", "9"}
                     /\ Digit(key.raw) <= getPatternCount
               THEN Reset
               ELSE IF (key.name = "n" \/ key.raw = ".") /\ ~playing
               THEN Stepped
               ELSE Kept
       IN /\ GolTick => playing /\ Stepped
          /\ \A key \in CounterKeys :
               \A draw \in (IF key.name = "r" THEN CounterDraws ELSE {"dead"}) :
                   Expected(key) \/ ~GolKey(key, draw)]_vars

\* The second pattern was loaded and has since been stepped twice, the
\* second time by the timer.
C24_Witness ==
    /\ screen = "life" /\ playing /\ wrap
    /\ patternIndex = 1
    /\ generation = 2
    /\ grid = step(step(loadPatternGrid(1), TRUE), TRUE)
    /\ grid # loadPatternGrid(1)

\* ---- C25 -------------------------------------------------------------------
\* The parameters of the committed state a frame of the flow field / plasma
\* is sampled with.
FlowParameters(f) ==
    [scale |-> f.scale, displayMode |-> f.displayMode,
     colorMode |-> f.colorMode, time |-> f.time]

PlasmaParameters(f) ==
    [scale |-> f.scale, palette |-> f.palette, charSet |-> f.charSet, time |-> f.time]

\* C25: a frame is sampled with one snapshot of (scale, display mode, colour
\* mode / palette, character set, time), all of whose fields are those of
\* the one state committed last before the frame; a key event or a timer
\* tick never alters a frame that was rendered, its change shows in a frame
\* rendered later.
C25_FrameSnapshot ==
    [][/\ frame' # frame =>
            /\ <<flow', plasma', marquee'>> = <<flow, plasma, marquee>>
            /\ frame'.owner = "flow" =>
                  flow.mounted /\ frame'.snap = FlowParameters(flow)
            /\ frame'.owner = "plasma" =>
                  plasma.mounted /\ frame'.snap = PlasmaParameters(plasma)
       /\ <<flow', plasma'>> # <<flow, plasma>> => frame' = frame
       /\ (Render /\ flow.mounted) => frame'.snap = FlowParameters(flow)
       /\ (Render /\ plasma.mounted) => frame'.snap = PlasmaParameters(plasma)]_vars

\* The last frame of the flow field was drawn as arrows at scale 1 after one
\* tick; D was pressed and a second tick came since then, and neither shows
\* in that frame.
C25_Witness ==
    /\ frame.owner = "flow"
    /\ frame.snap = [scale |-> 1, displayMode |-> "arrows", colorMode |-> FALSE,
                     time |-> FlowIncrement(10)]
    /\ flow.displayMode = "lines"
    /\ flow.time = 2 * FlowIncrement(10)

\* ---- C26 -------------------------------------------------------------------
\* The marquee at its highest speed with nothing scrolled yet: key 3 on the
\* menu, Space, Right fifteen times, Space.
MarqueeAtFullSpeed == MarqueeSync([MarqueeMounted EXCEPT !.speed = 200])

ScrollInit ==
    /\ BatchIdle /\ LifeIdle /\ GolIdle /\ FractalIdle /\ FxIdle /\ NoiseIdle
    /\ app = [experiment |-> "marquee", alive |-> TRUE, menuTime |-> 0]
    /\ flow = FlowUnmounted
    /\ plasma = PlasmaUnmounted
    /\ marquee = MarqueeAtFullSpeed
    /\ timers = SetToBag({MarqueeTimer(MarqueeAtFullSpeed)})
    /\ postFns = SetToBag({"marquee"})
    /\ noiseSeed = 0
    /\ frame = NoFrame

\* M changes the message, Space pauses and resumes.
ScrollKeys == {Key("m", "m"), Key("space", " ")}

ScrollPress == \E key \in ScrollKeys : MarqueeKey(key)

ScrollNext == MarqueeScroll \/ ScrollPress \/ MarqueeReset \/ Render

SpecScroll == ScrollInit /\ [][ScrollNext]_vars

\* C26: in every state a frame can observe, and in every frame rendered,
\* 0 <= offset <= textWidth + width for the textWidth of the message that is
\* displayed (offsets are in units of 0.2).
C26_OffsetInRange ==
    /\ marquee.mounted =>
          /\ 0 <= marquee.ref.offset
          /\ marquee.ref.offset <= 5 * (marquee.ref.textWidth + MarqueeWidth)
    /\ frame.owner = "marquee" =>
          /\ 0 <= frame.snap.offset
          /\ frame.snap.offset <= 5 * (frame.snap.textWidth + MarqueeWidth)

\* A frame was rendered with the second message (textWidth 66, width 100)
\* at an offset beyond 166 columns: M was pressed while the first message
\* had scrolled that far, and the reset of the offset was not committed yet.
C26_Witness ==
    /\ frame.owner = "marquee"
    /\ frame.snap.textWidth = TextWidth(1)
    /\ frame.snap.offset > 5 * (TextWidth(1) + MarqueeWidth)
    /\ marquee.messageIndex = 1

\* ---- C28 -------------------------------------------------------------------
\* The cells of the 8-connected Moore neighbourhood of (x, y), other than
\* (x, y) itself: taken around the torus with wrap, inside the grid without.
MooreNeighbours(g, x, y, w) ==
    IF w
    THEN {<<(x + d[1] + Width(g)) % Width(g), (y + d[2] + Height(g)) % Height(g)>> :
             d \in Offsets} \ {<<x, y>>}
    ELSE InGridNeighbors(g, x, y)

\* C28: for every grid, cell and boundary policy the neighbour count is the
\* number of distinct live cells, other than the cell itself, in the cell's
\* Moore neighbourhood; it lies between 0 and 8.
C28_CountsDistinctNeighbours ==
    lifeOp = "count" =>
        /\ cnt \in 0 .. 8
        /\ cnt = LiveIn(grid, MooreNeighbours(grid, cx, cy, wrap))

\* The neighbours of the single live cell of a 1 x 1 torus were counted: the
\* count is 8, and the cell has no neighbour but itself.
C28_Witness ==
    /\ lifeOp = "count" /\ wrap
    /\ Width(grid) = 1 /\ Height(grid) = 1
    /\ grid[1][1]
    /\ cnt = 8

\* ---- C29 -------------------------------------------------------------------
\* |z|^2 at the end of the loop of the call that returned.
FinalNorm2 ==
    LET end == IF point.juliaMode
               THEN EscapeLoop(point.x0, point.y0, point.juliaReal, point.juliaImag,
                               0, point.maxIterations)
               ELSE EscapeLoop(0, 0, point.x0, point.y0, 0, point.maxIterations)
    IN end.x * end.x + end.y * end.y

\* C29: calculatePoint returns 0 <= iterations <= maxIterations, and escaped
\* is true exactly when the loop stopped because |z|^2 exceeded 4: a point
\* whose orbit leaves the radius-2 disc within the first maxIterations
\* iterations is reported as escaped.
C29_EscapedIffLeftDisc ==
    pixel # NoPixel =>
        /\ pixel.iterations \in 0 .. point.maxIterations
        /\ pixel.escaped <=> FinalNorm2 > 4

\* The Mandelbrot point (2,0) computed with maxIterations = 2: z2 = 6 is
\* outside the disc after the second iteration, and the pixel is reported
\* as not escaped.
C29_Witness ==
    /\ AtTwoZero
    /\ point.maxIterations = 2
    /\ pixel.iterations = 2
    /\ FinalNorm2 = 36
    /\ ~pixel.escaped

\* ---- C30 -------------------------------------------------------------------
\* C30: the focused slider is one that is shown for the current mode: while
\* juliaMode is false the focus is "iterations", and no key event changes
\* juliaReal or juliaImag while the explorer is in Mandelbrot mode.
C30_FocusOnShownSlider ==
    [][/\ (fx'.mounted /\ ~fx'.juliaMode) => fx'.focusedSlider = "iterations"
       /\ (fx.mounted /\ fx'.mounted /\ ~fx.juliaMode)
             => (fx'.juliaReal = fx.juliaReal /\ fx'.juliaImag = fx.juliaImag)]_vars

\* Mandelbrot mode with the focus on the hidden slider of juliaReal, whose
\* value is one step above the mount value: M, Tab, M, then ".".
C30_Witness ==
    /\ screen = "fractal" /\ fx.mounted
    /\ ~fx.juliaMode
    /\ fx.focusedSlider = "juliaReal"
    /\ fx.juliaReal = FxMounted.juliaReal + 1000
    /\ fx.juliaImag = FxMounted.juliaImag
    /\ fx.maxIterations = FxMounted.maxIterations

====
